---- MODULE Spec2Model ----
(***************************************************************************)
(* The key/value configuration editor of terminal_analog_clock             *)
(* (src/src/config_edit.rs): the typed entry store, its load/save to a     *)
(* JSON document, its typed setters, and the interactive editing session   *)
(* (browsing loop plus the modal text and integer editors).                *)
(*                                                                         *)
(* Strings are TLA+ strings; a character is a one-character string.  A     *)
(* usize is a natural number; an i64 is kept as sign and decimal digits    *)
(* (I64) so that the full 64-bit range is representable.                   *)
(***************************************************************************)
EXTENDS Integers, Sequences, FiniteSets, TLC

(***************************************************************************)
(* Characters and strings                                                  *)
(***************************************************************************)

\* The characters of a string, in order.
Chars(s) == [i \in 1..Len(s) |-> SubSeq(s, i, i)]

\* U+00E9, LATIN SMALL LETTER E WITH ACUTE (0xC3 0xA9 in UTF-8), is written
\* "^" in the strings of this model: the model checker's string operations
\* are exact on ASCII characters only.  No key of the model types "^".
EAcute == "^"

\* Characters of the model that UTF-8 encodes in two bytes.
TwoByteChars == {EAcute}

\* The number of bytes of a character in a Rust String (UTF-8).
Utf8Len(c) == IF c \in TwoByteChars THEN 2 ELSE 1

\* str::len(): the length of a string in BYTES, the sum of the lengths of
\* its characters (summed by halves, which keeps the evaluation shallow on
\* long strings).
RECURSIVE ByteLen(_)
ByteLen(s) ==
    IF s = "" THEN 0
    ELSE IF Len(s) = 1 THEN Utf8Len(s)
    ELSE ByteLen(SubSeq(s, 1, Len(s) \div 2))
         + ByteLen(SubSeq(s, (Len(s) \div 2) + 1, Len(s)))

\* str::chars().count(): the length of a string in characters.
CharCount(s) == Len(s)

\* str::is_char_boundary(b): byte offset b falls between two characters.
IsCharBoundary(s, b) ==
    \E n \in 0..Len(s) : ByteLen(SubSeq(s, 1, n)) = b

\* String::pop(): the string without its last character (a no-op on "").
Pop(s) == IF s = "" THEN s ELSE SubSeq(s, 1, Len(s) - 1)

Digits == <<"0", "1", "2", "3", "4", "5", "6", "7", "8", "9">>

\* char::is_ascii_digit
IsAsciiDigit(c) == \E d \in 1..10 : Digits[d] = c

DigitVal(c) == (CHOOSE d \in 1..10 : Digits[d] = c) - 1

AllDigits(s) == \A i \in 1..Len(s) : IsAsciiDigit(SubSeq(s, i, i))

(***************************************************************************)
(* Integers: usize as Nat, i64 as sign and magnitude                       *)
(***************************************************************************)

\* A digit sequence without its leading zeros (never empty: zero is <<0>>).
RECURSIVE StripZeros(_)
StripZeros(ds) == IF Len(ds) > 1 /\ ds[1] = 0 THEN StripZeros(Tail(ds)) ELSE ds

\* a <= b for two digit sequences without leading zeros.
RECURSIVE DigitsLeq(_, _)
DigitsLeq(a, b) ==
    IF Len(a) # Len(b) THEN Len(a) < Len(b)
    ELSE IF a = <<>> THEN TRUE
    ELSE IF a[1] # b[1] THEN a[1] < b[1]
    ELSE DigitsLeq(Tail(a), Tail(b))

\* i64::MAX = 9223372036854775807 and the magnitude of i64::MIN.
I64MaxMag == <<9,2,2,3,3,7,2,0,3,6,8,5,4,7,7,5,8,0,7>>
I64MinMag == <<9,2,2,3,3,7,2,0,3,6,8,5,4,7,7,5,8,0,8>>
\* u64::MAX = 18446744073709551615 (usize on a 64-bit target).
U64MaxMag == <<1,8,4,4,6,7,4,4,0,7,3,7,0,9,5,5,1,6,1,5>>

\* An i64 value: canonical sign and magnitude.
I64(neg, mag) == [neg |-> neg, mag |-> mag]
I64Zero == I64(FALSE, <<0>>)
I64Max == I64(FALSE, I64MaxMag)
I64Min == I64(TRUE, I64MinMag)

DigitsOf(s) == [i \in 1..Len(s) |-> DigitVal(SubSeq(s, i, i))]

RECURSIVE DigitStr(_)
DigitStr(ds) == IF ds = <<>> THEN "" ELSE Digits[ds[1] + 1] \o DigitStr(Tail(ds))

\* i64::to_string
I64ToString(v) == (IF v.neg THEN "-" ELSE "") \o DigitStr(v.mag)

Ok(v) == [ok |-> TRUE, v |-> v]
Err == [ok |-> FALSE]

\* str::parse::<i64>(): an optional sign, then at least one digit, in range.
ParseI64Str(s) ==
    LET signed == s # "" /\ SubSeq(s, 1, 1) \in {"-", "+"}
        neg == s # "" /\ SubSeq(s, 1, 1) = "-"
        body == IF signed THEN SubSeq(s, 2, Len(s)) ELSE s
    IN  IF body = "" \/ ~AllDigits(body) THEN Err
        ELSE LET mag == StripZeros(DigitsOf(body))
             IN  IF neg
                 THEN IF DigitsLeq(mag, I64MinMag)
                      THEN Ok(I64(mag # <<0>>, mag)) ELSE Err
                 ELSE IF DigitsLeq(mag, I64MaxMag)
                      THEN Ok(I64(FALSE, mag)) ELSE Err

\* The decimal form of a usize.
RECURSIVE UsizeToString(_)
UsizeToString(n) ==
    IF n < 10 THEN Digits[n + 1]
    ELSE UsizeToString(n \div 10) \o Digits[(n % 10) + 1]

RECURSIVE DigitsToNat(_)
DigitsToNat(ds) ==
    IF ds = <<>> THEN 0 ELSE DigitsToNat(SubSeq(ds, 1, Len(ds) - 1)) * 10 + ds[Len(ds)]

(***************************************************************************)
(* Value, Entry, Config                                                    *)
(***************************************************************************)

\* Option<T>
None == [some |-> FALSE]
Some(x) == [some |-> TRUE, v |-> x]

\* enum Value
Text(value, maximum_size) ==
    [kind |-> "text", value |-> value, maximum_size |-> maximum_size]
Choice(options, selected) ==
    [kind |-> "choice", options |-> options, selected |-> selected]
Category == [kind |-> "category"]
Color(options, selected) ==
    [kind |-> "color", options |-> options, selected |-> selected]
Integer(value) == [kind |-> "integer", value |-> value]
\* (the field is named apart from Integer's: TLC compares records of the same
\* fields field by field, and an i64 is not comparable with a bool)
Boolean(value) == [kind |-> "boolean", flag |-> value]

\* struct Entry
Entry(key, value) == [key |-> key, value |-> value]

\* struct Config
Config(filename, entries) == [filename |-> filename, entries |-> entries]

ColorNames ==
    <<"BLACK", "RED", "GREEN", "YELLOW", "BLUE", "MAGENTA", "CYAN", "WHITE">>

\* Config::default: the built-in schema.
DefaultEntries == <<
    Entry("Colors", Category),
    Entry("background color", Color(ColorNames, 0)),
    Entry("circle color", Color(ColorNames, 2)),
    Entry("seconds color", Color(ColorNames, 6)),
    Entry("digits color", Color(ColorNames, 7)),
    Entry("minutes color", Color(ColorNames, 3)),
    Entry("hours color", Color(ColorNames, 1)),
    Entry("Hand labels", Category),
    Entry("hour hand label", Text("HOURS", Some(32))),
    Entry("minute hand label", Text("minutes", Some(32))),
    Entry("second hand label", Text(".", Some(32))),
    Entry("Display modes", Category),
    Entry("clock border",
          Choice(<<"full", "dot and hours", "hours", "no border">>, 1)),
    Entry("display seconds",
          Choice(<<"no display", "full each second", "full continuous",
                   "end of hand each second", "end of hand full continuous">>, 1)),
    Entry("numbers", Choice(<<"no numbers", "stars", "numbers">>, 0)),
    Entry("clock width", Integer(I64(FALSE, <<5>>))),
    Entry("local time offset", Integer(I64Zero)),
    Entry("continuous minutes", Boolean(TRUE)),
    Entry("Keyboard shortcuts", Category),
    Entry("change clock border", Text("c", Some(1))),
    Entry("change number display", Text("n", Some(1))),
    Entry("change seconds display", Text("s", Some(1))),
    Entry("quit", Text("q", Some(1))) >>

Default(filename_str) == Config(filename_str, DefaultEntries)

(***************************************************************************)
(* The persisted document: a JSON tree                                     *)
(***************************************************************************)

JNull == [t |-> "null"]
JBool(b) == [t |-> "bool", b |-> b]
\* A number, by its literal ("3", "-1", "1.5").
JNum(lit) == [t |-> "num", lit |-> lit]
JStr(s) == [t |-> "str", s |-> s]
JArr(a) == [t |-> "arr", a |-> a]
\* An object: its members in document order, each <<name, value>>.
JObj(o) == [t |-> "obj", o |-> o]
\* A text that is not JSON at all.
JInvalid == [t |-> "invalid"]

\* Serialize for Value (internally tagged by "kind", variant names lowercased).
ValueToJson(v) ==
    CASE v.kind = "text" ->
           JObj(<< <<"kind", JStr("text")>>,
                   <<"value", JStr(v.value)>>,
                   <<"maximum_size",
                     IF v.maximum_size.some
                     THEN JNum(UsizeToString(v.maximum_size.v)) ELSE JNull>> >>)
      [] v.kind \in {"choice", "color"} ->
           JObj(<< <<"kind", JStr(v.kind)>>,
                   <<"options", JArr([i \in 1..Len(v.options) |-> JStr(v.options[i])])>>,
                   <<"selected", JNum(UsizeToString(v.selected))>> >>)
      [] v.kind = "category" -> JObj(<< <<"kind", JStr("category")>> >>)
      [] v.kind = "integer" ->
           JObj(<< <<"kind", JStr("integer")>>,
                   <<"value", JNum(I64ToString(v.value))>> >>)
      [] v.kind = "boolean" ->
           JObj(<< <<"kind", JStr("boolean")>>, <<"value", JBool(v.flag)>> >>)

EntryToJson(e) ==
    JObj(<< <<"key", JStr(e.key)>>, <<"value", ValueToJson(e.value)>> >>)

\* A serializer that writes the entries last to first.
ConfigToJson_reversed(c) ==
    JObj(<< <<"filename", JStr(c.filename)>>,
            <<"entries", JArr([i \in 1..Len(c.entries) |->
                                  EntryToJson(c.entries[Len(c.entries) + 1 - i])])>> >>)

\* serde_json::to_string_pretty(self)
ConfigToJson(c) ==
    JObj(<< <<"filename", JStr(c.filename)>>,
            <<"entries", JArr([i \in 1..Len(c.entries) |-> EntryToJson(c.entries[i])])>> >>)

HasMember(o, name) == \E i \in 1..Len(o) : o[i][1] = name
Member(o, name) == o[CHOOSE i \in 1..Len(o) : o[i][1] = name][2]
DuplicateMember(o, names) ==
    \E i, j \in 1..Len(o) : i < j /\ o[i][1] = o[j][1] /\ o[i][1] \in names

\* The members a derived struct visitor reads: from an object (a repeated
\* known field is an error, unknown fields are skipped) or, positionally, from
\* an array holding at least the `required` first fields and no extra element.
StructMembers(j, names, required) ==
    IF j.t = "obj"
    THEN IF DuplicateMember(j.o, {names[i] : i \in 1..Len(names)}) THEN Err ELSE Ok(j.o)
    ELSE IF j.t = "arr" /\ Len(j.a) >= required /\ Len(j.a) <= Len(names)
    THEN Ok([i \in 1..Len(j.a) |-> <<names[i], j.a[i]>>])
    ELSE Err

\* Deserialize for usize: a non-negative integer literal up to u64::MAX.
UsizeFromJson(j) ==
    IF j.t = "num" /\ j.lit # "" /\ AllDigits(j.lit)
       /\ DigitsLeq(StripZeros(DigitsOf(j.lit)), U64MaxMag)
    THEN Ok(DigitsToNat(DigitsOf(j.lit))) ELSE Err

\* Deserialize for i64: an integer literal in range; "-0" reads as a float.
I64FromJson(j) ==
    IF j.t = "num" /\ j.lit # "-0" /\ (j.lit = "" \/ SubSeq(j.lit, 1, 1) # "+")
    THEN ParseI64Str(j.lit) ELSE Err

StringFromJson(j) == IF j.t = "str" THEN Ok(j.s) ELSE Err

\* Deserialize for Vec<String>
StringsFromJson(j) ==
    IF j.t = "arr" /\ \A i \in 1..Len(j.a) : j.a[i].t = "str"
    THEN Ok([i \in 1..Len(j.a) |-> j.a[i].s]) ELSE Err

\* Deserialize for Option<usize>: null is None.
OptionUsizeFromJson(j) ==
    IF j.t = "null" THEN Ok(None)
    ELSE LET n == UsizeFromJson(j) IN IF n.ok THEN Ok(Some(n.v)) ELSE Err

\* The fields of one variant, read from the members `o` left beside the tag.
VariantFromMembers(kind, o) ==
    CASE kind = "text" ->
           IF ~HasMember(o, "value") THEN Err
           ELSE LET s == StringFromJson(Member(o, "value"))
                    m == IF HasMember(o, "maximum_size")
                         THEN OptionUsizeFromJson(Member(o, "maximum_size"))
                         ELSE Ok(None)
                IN  IF s.ok /\ m.ok THEN Ok(Text(s.v, m.v)) ELSE Err
      [] kind \in {"choice", "color"} ->
           IF ~HasMember(o, "options") \/ ~HasMember(o, "selected") THEN Err
           ELSE LET opts == StringsFromJson(Member(o, "options"))
                    sel == UsizeFromJson(Member(o, "selected"))
                IN  IF opts.ok /\ sel.ok
                    THEN Ok([kind |-> kind, options |-> opts.v, selected |-> sel.v])
                    ELSE Err
      [] kind = "category" -> Ok(Category)
      [] kind = "integer" ->
           IF ~HasMember(o, "value") THEN Err
           ELSE LET n == I64FromJson(Member(o, "value"))
                IN  IF n.ok THEN Ok(Integer(n.v)) ELSE Err
      [] kind = "boolean" ->
           IF ~HasMember(o, "value") THEN Err
           ELSE LET b == Member(o, "value")
                IN  IF b.t = "bool" THEN Ok(Boolean(b.b)) ELSE Err
      [] OTHER -> Err

VariantFields(kind) ==
    CASE kind = "text" -> <<"value", "maximum_size">>
      [] kind \in {"choice", "color"} -> <<"options", "selected">>
      [] kind \in {"integer", "boolean"} -> <<"value">>
      [] OTHER -> <<>>

\* Deserialize for Value: the "kind" member selects the variant.  (The
\* positional array form of a variant is not modelled: no document of the
\* model uses it.)
ValueFromJson(j) ==
    IF j.t # "obj" THEN Err
    ELSE IF ~HasMember(j.o, "kind") \/ DuplicateMember(j.o, {"kind"}) THEN Err
    ELSE LET tag == Member(j.o, "kind")
         IN  IF tag.t # "str" THEN Err
             ELSE IF DuplicateMember(j.o, {VariantFields(tag.s)[i] :
                                             i \in 1..Len(VariantFields(tag.s))})
             THEN Err
             ELSE VariantFromMembers(tag.s, j.o)

\* Deserialize for Entry
EntryFromJson(j) ==
    LET m == StructMembers(j, <<"key", "value">>, 2)
    IN  IF ~m.ok \/ ~HasMember(m.v, "key") \/ ~HasMember(m.v, "value") THEN Err
        ELSE LET k == StringFromJson(Member(m.v, "key"))
                 v == ValueFromJson(Member(m.v, "value"))
             IN  IF k.ok /\ v.ok THEN Ok(Entry(k.v, v.v)) ELSE Err

\* serde_json::from_str::<Config>(&text)
ConfigFromJson(j) ==
    LET m == StructMembers(j, <<"filename", "entries">>, 2)
    IN  IF ~m.ok \/ ~HasMember(m.v, "filename") \/ ~HasMember(m.v, "entries") THEN Err
        ELSE LET f == StringFromJson(Member(m.v, "filename"))
                 a == Member(m.v, "entries")
             IN  IF ~f.ok \/ a.t # "arr" THEN Err
                 ELSE LET es == [i \in 1..Len(a.a) |-> EntryFromJson(a.a[i])]
                      IN  IF \A i \in 1..Len(es) : es[i].ok
                          THEN Ok(Config(f.v, [i \in 1..Len(es) |-> es[i].v]))
                          ELSE Err

(***************************************************************************)
(* The file system: what each path holds                                   *)
(***************************************************************************)

\* No file at the path; a file that cannot be read as text; a readable text.
Missing == [t |-> "missing"]
Unreadable == [t |-> "unreadable"]
FileText(json) == [t |-> "text", json |-> json]

\* A load that keeps what it could read of a document it cannot parse: the
\* default entries under the document's first member as filename.
load_partial(filename, fs) ==
    IF fs[filename].t = "text"
    THEN LET j == fs[filename].json
             parsed == ConfigFromJson(j)
         IN  IF parsed.ok THEN parsed.v
             ELSE IF j.t = "obj" /\ Len(j.o) > 0 /\ j.o[1][2].t = "str"
                  THEN Default(j.o[1][2].s \o "~")
                  ELSE Default(filename)
    ELSE Default(filename)

\* Config::load
load(filename, fs) ==
    IF fs[filename].t # "missing"
    THEN IF fs[filename].t = "text"
         THEN LET parsed == ConfigFromJson(fs[filename].json)
              IN  IF parsed.ok THEN parsed.v ELSE Default(filename)
         ELSE Default(filename)
    ELSE Default(filename)

\* How fs::write can end: the text is written; the file cannot be opened for
\* writing (it stays as it was); the write fails after the file was truncated.
WriteOutcomes == {"written", "denied", "partial"}

\* Config::save: the file system after the write.
save_fs(c, fs, outcome) ==
    CASE outcome = "written" -> [fs EXCEPT ![c.filename] = FileText(ConfigToJson(c))]
      [] outcome = "denied" -> fs
      [] outcome = "partial" -> [fs EXCEPT ![c.filename] = FileText(JInvalid)]

\* Config::save: whether it returns Ok(()).
save_ok(outcome) == outcome = "written"

(***************************************************************************)
(* The store's typed getters                                               *)
(***************************************************************************)

\* bool::to_string
BoolToString(b) == IF b THEN "true" ELSE "false"

\* entries.iter().find(|e| e.key == key): the index of the first entry with
\* the key, 0 when there is none.
FindFirst(entries, key) ==
    IF \E i \in 1..Len(entries) : entries[i].key = key
    THEN CHOOSE i \in 1..Len(entries) :
            /\ entries[i].key = key
            /\ \A j \in 1..(i - 1) : entries[j].key # key
    ELSE 0

\* A get_string that answers for a Choice or Color with its first option.
get_string_first_option(entries, key) ==
    IF FindFirst(entries, key) = 0 THEN None
    ELSE LET v == entries[FindFirst(entries, key)].value
         IN  CASE v.kind = "text" -> Some(v.value)
               [] v.kind \in {"choice", "color"} ->
                     IF 0 < Len(v.options) THEN Some(v.options[1]) ELSE None
               [] v.kind = "integer" -> Some(I64ToString(v.value))
               [] v.kind = "boolean" -> Some(BoolToString(v.flag))
               [] v.kind = "category" -> None

\* Config::get_string.  options.get(selected) is None for an index outside
\* the options.
get_string(entries, key) ==
    IF FindFirst(entries, key) = 0 THEN None
    ELSE LET v == entries[FindFirst(entries, key)].value
         IN  CASE v.kind = "text" -> Some(v.value)
               [] v.kind \in {"choice", "color"} ->
                     IF v.selected < Len(v.options)
                     THEN Some(v.options[v.selected + 1]) ELSE None
               [] v.kind = "integer" -> Some(I64ToString(v.value))
               [] v.kind = "boolean" -> Some(BoolToString(v.flag))
               [] v.kind = "category" -> None

\* A get_option that answers 0 for every entry.
get_option_zero(entries, key) == 0

\* Config::get_option
get_option(entries, key) ==
    IF FindFirst(entries, key) = 0 THEN 0
    ELSE LET v == entries[FindFirst(entries, key)].value
         IN  IF v.kind \in {"choice", "color"} THEN v.selected ELSE 0

\* Config::get_int
get_int(entries, key) ==
    IF FindFirst(entries, key) = 0 THEN I64Zero
    ELSE LET v == entries[FindFirst(entries, key)].value
         IN  IF v.kind = "integer" THEN v.value ELSE I64Zero

\* A get_bool that answers true for an entry of another kind.
get_bool_default_true(entries, key) ==
    IF FindFirst(entries, key) = 0 THEN FALSE
    ELSE LET v == entries[FindFirst(entries, key)].value
         IN  IF v.kind = "boolean" THEN v.flag ELSE TRUE

\* Config::get_bool
get_bool(entries, key) ==
    IF FindFirst(entries, key) = 0 THEN FALSE
    ELSE LET v == entries[FindFirst(entries, key)].value
         IN  IF v.kind = "boolean" THEN v.flag ELSE FALSE

(***************************************************************************)
(* The store's typed setters (pure parts)                                  *)
(***************************************************************************)

\* A find that keeps the last entry with the key.
Find_last(entries, key) ==
    IF \E i \in 1..Len(entries) : entries[i].key = key
    THEN CHOOSE i \in 1..Len(entries) :
            /\ entries[i].key = key
            /\ \A j \in (i + 1)..Len(entries) : entries[j].key # key
    ELSE 0

\* entries.iter().find(|e| e.key == key): the 1-based position of the first
\* entry with that key, 0 when there is none.
Find(entries, key) ==
    IF \E i \in 1..Len(entries) : entries[i].key = key
    THEN CHOOSE i \in 1..Len(entries) :
            /\ entries[i].key = key
            /\ \A j \in 1..(i - 1) : entries[j].key # key
    ELSE 0

SetValue(entries, i, v) == [entries EXCEPT ![i].value = v]

\* A set_option whose range test is one off: the index len(options) is stored.
set_option_stores_inclusive(entries, key, value) ==
    /\ value >= 0
    /\ Find(entries, key) # 0
    /\ LET v == entries[Find(entries, key)].value
       IN  /\ v.kind \in {"choice", "color"}
           /\ value <= Len(v.options)

\* Config::set_option, up to the save: whether the new index is stored.
\* `value` is the i64 argument, a small integer in this model.
set_option_stores(entries, key, value) ==
    /\ value >= 0
    /\ Find(entries, key) # 0
    /\ LET v == entries[Find(entries, key)].value
       IN  /\ v.kind \in {"choice", "color"}
           /\ value < Len(v.options)

set_option_entries(entries, key, value) ==
    IF set_option_stores(entries, key, value)
    THEN LET i == Find(entries, key)
         IN  SetValue(entries, i, [entries[i].value EXCEPT !.selected = value])
    ELSE entries

\* Config::set_int, up to the save.
set_int_stores(entries, key) ==
    /\ Find(entries, key) # 0
    /\ entries[Find(entries, key)].value.kind = "integer"

\* A set_int that does not look at the entry's kind.
set_int_entries_any_kind(entries, key, value) ==
    IF Find(entries, key) # 0
    THEN SetValue(entries, Find(entries, key), Integer(value))
    ELSE entries

set_int_entries(entries, key, value) ==
    IF set_int_stores(entries, key)
    THEN SetValue(entries, Find(entries, key), Integer(value))
    ELSE entries

\* Config::set_bool, up to the save.
set_bool_stores(entries, key) ==
    /\ Find(entries, key) # 0
    /\ entries[Find(entries, key)].value.kind = "boolean"

set_bool_entries(entries, key, value) ==
    IF set_bool_stores(entries, key)
    THEN SetValue(entries, Find(entries, key), Boolean(value))
    ELSE entries

\* Config::set_string, up to the save: the length test is value.len(), the
\* length in bytes.
set_string_stores(entries, key, value) ==
    /\ Find(entries, key) # 0
    /\ LET v == entries[Find(entries, key)].value
       IN  /\ v.kind = "text"
           /\ v.maximum_size.some => ~(ByteLen(value) > v.maximum_size.v)

set_string_entries(entries, key, value) ==
    IF set_string_stores(entries, key, value)
    THEN LET i == Find(entries, key)
         IN  SetValue(entries, i, [entries[i].value EXCEPT !.value = value])
    ELSE entries

\* What a function without a return type returns.
Unit == [unit |-> TRUE]

(***************************************************************************)
(* The editing session (pure parts)                                        *)
(***************************************************************************)

\* ncurses key codes.
KEY_DOWN == 258
KEY_UP == 259
KEY_LEFT == 260
KEY_RIGHT == 261
KEY_BACKSPACE == 263

\* The cap of a Text entry that declares none, and the integer editor's cap.
DefaultLimit == 4096
IntegerLimit == 32

IsCategory(e) == e.value.kind = "category"

\* A session that starts on the first entry whatever its kind.
InitialSelection_first(entries) == 0

\* Initial selection (0-based): the first non-category entry, 0 if none.
InitialSelection(entries) ==
    IF \E i \in 1..Len(entries) : ~IsCategory(entries[i])
    THEN (CHOOSE i \in 1..Len(entries) :
             /\ ~IsCategory(entries[i])
             /\ \A j \in 1..(i - 1) : IsCategory(entries[j])) - 1
    ELSE 0

\* A move up that takes the entry just above, Category or not.
MoveUp_adjacent(entries, new, selected) == IF new > 0 THEN new - 1 ELSE selected

\* KEY_UP: step `new` down from the selection to the first non-category
\* entry; `selected` is kept when the scan reaches 0 without finding one.
RECURSIVE MoveUp(_, _, _)
MoveUp(entries, new, selected) ==
    IF new > 0
    THEN IF ~IsCategory(entries[(new - 1) + 1]) THEN new - 1
         ELSE MoveUp(entries, new - 1, selected)
    ELSE selected

\* KEY_DOWN: the same scan towards the end of the list.
RECURSIVE MoveDown(_, _, _)
MoveDown(entries, new, selected) ==
    IF new + 1 < Len(entries)
    THEN IF ~IsCategory(entries[(new + 1) + 1]) THEN new + 1
         ELSE MoveDown(entries, new + 1, selected)
    ELSE selected

\* A cycle that stops at the last option instead of wrapping.
cycle_forward_saturating(v) ==
    [v EXCEPT !.selected = IF v.selected + 1 < Len(v.options) THEN v.selected + 1
                           ELSE v.selected]

\* Enter, Space, Right on a Choice/Color with options.
cycle_forward(v) == [v EXCEPT !.selected = (v.selected + 1) % Len(v.options)]

\* A step back that stops at the first option instead of wrapping.
cycle_backward_clamped(v) ==
    [v EXCEPT !.selected = IF v.selected = 0 THEN 0 ELSE v.selected - 1]

\* Left on a Choice/Color with options.
cycle_backward(v) ==
    [v EXCEPT !.selected = IF v.selected = 0 THEN Len(v.options) - 1
                           ELSE v.selected - 1]
\* A key that switches a Boolean on and never off.
toggle_on(v) == [v EXCEPT !.flag = TRUE]

toggle(v) == [v EXCEPT !.flag = ~v.flag]

\* std::char::from_u32(ch as u32) for the key codes of the model (-1, what
\* getch returns on error, is no character).
from_u32(code) ==
    CASE code = 32 -> Some(" ")
      [] code = 45 -> Some("-")
      [] code = 49 -> Some("1")
      [] code = 97 -> Some("a")
      [] OTHER -> None

\* The modal editors' display width.
max_len(w) == IF w > 1 THEN w - 1 ELSE 1

\* &input[start..] with start = input.len() - max_len: slicing a String
\* inside a character panics.
slice_panics(in, w) ==
    /\ ByteLen(in) > max_len(w)
    /\ ~IsCharBoundary(in, ByteLen(in) - max_len(w))

\* A default arm that appends whatever the buffer's length.
text_push_unlimited(in, code, limit) ==
    IF code >= 32 /\ code <= 126 /\ from_u32(code).some
    THEN in \o from_u32(code).v ELSE in

\* edit_text_value, the default arm: a printable ASCII character is appended
\* while input.len() < limit.
text_push(in, code, limit) ==
    IF code >= 32 /\ code <= 126 /\ from_u32(code).some /\ ByteLen(in) < limit
    THEN in \o from_u32(code).v ELSE in

\* A default arm that takes a minus sign anywhere in the buffer.
integer_push_any_minus(in, code) ==
    IF from_u32(code).some /\ ~(ByteLen(in) >= IntegerLimit)
       /\ (IsAsciiDigit(from_u32(code).v) \/ from_u32(code).v = "-")
    THEN in \o from_u32(code).v ELSE in

\* edit_integer_value, the default arm: digits, and '-' on an empty buffer,
\* while input.len() < limit.
integer_push(in, code) ==
    IF from_u32(code).some /\ ~(ByteLen(in) >= IntegerLimit)
       /\ (IsAsciiDigit(from_u32(code).v) \/ (from_u32(code).v = "-" /\ in = ""))
    THEN in \o from_u32(code).v ELSE in

\* An Enter arm that stores zero for a buffer that does not parse.
integer_commit_zero(in, old) ==
    IF in = "" \/ in = "-" THEN I64Zero
    ELSE IF ParseI64Str(in).ok THEN ParseI64Str(in).v ELSE I64Zero

\* edit_integer_value, the Enter arm: the value committed for a buffer.
integer_commit(in, old) ==
    IF in = "" \/ in = "-" THEN I64Zero
    ELSE IF ParseI64Str(in).ok THEN ParseI64Str(in).v ELSE old

\* An Enter arm that drops the buffer.
text_commit_keep(in, old) == old

\* edit_text_value, the Enter arm.
text_commit(in, old) == in

(***************************************************************************)
(* State                                                                   *)
(***************************************************************************)

VARIABLES
    fs,                 \* the file system: what each path holds
    cfg,                \* the Config in memory
    SAVE_WHEN_CHANGE,   \* the autosave flag: a static that is only ever read;
                        \* its initialiser (true in the source) is the setting
    pc,                 \* "idle": the application runs; "browsing": the session
                        \* waits in getch; "edit_text", "edit_integer": a modal
                        \* editor waits in getch; "aborted": the process panicked
    selected,           \* terminal_edit_json: the selection (0-based)
    display_screen,     \* terminal_edit_json: the screen was redrawn for this wait
    ch,                 \* terminal_edit_json: the last key read
    input,              \* modal editor: the buffer
    max_x,              \* modal editor: the terminal width it read
    edit_ch,            \* modal editor: the last key read (0: none since the
                        \* last key read by terminal_edit_json)
    status_row,         \* the screen's status row (max_y - 2) during the wait
    reported,           \* what show_status was given while the last key was handled
    call,               \* the last call of the store's interface: the function
                        \* and its arguments (the value under the name of its type)
    ret,                \* what that call returned, under the function's name
    io,                 \* how the last step's fs::write ended ("none": no write)
    user_config,        \* main.rs: the clock's UserConfig (modes and delta_a)
    clock_pc            \* main.rs: "off": the clock's loop is not running;
                        \* "getch": it is; "ended": it was left with 'q'

vars == <<fs, cfg, SAVE_WHEN_CHANGE, pc, selected, display_screen, ch, input,
          max_x, edit_ch, status_row, reported, call, ret, io,
          user_config, clock_pc>>

session == <<pc, selected, display_screen, ch, input, max_x, edit_ch,
             status_row, reported>>

clock == <<user_config, clock_pc>>

\* struct UserConfig (main.rs): the four mode counters and the extra width of
\* the ellipse; the version and the colors are not changed by any key.
UserConfig(show_seconds, show_circle, show_numbers, continuous_minutes, delta_a) ==
    [show_seconds |-> show_seconds, show_circle |-> show_circle,
     show_numbers |-> show_numbers, continuous_minutes |-> continuous_minutes,
     delta_a |-> delta_a]

\* GLOBAL_USER_CONFIG's initialiser.
DefaultUserConfig == UserConfig(1, 1, 2, 0, 0)

\* The clock is not running while the store and the editor are exercised.
ClockOff ==
    /\ user_config = DefaultUserConfig
    /\ clock_pc = "off"

(***************************************************************************)
(* Bounds and sampled inputs                                               *)
(***************************************************************************)

\* Characters are typed into a modal buffer only while it is shorter.
MaxInput == 2

Paths == {"a.json", "b.json"}

\* Documents a session is run on.  The key "k" names an entry of a different
\* kind in each (twice in one of them); "b" and "A" are absent from some.
SampleConfigs == <<
    Config("a.json", <<Entry("A", Category),
                       Entry("k", Choice(<<"a", "b", "c">>, 0))>>),
    Config("a.json", <<Entry("k", Text("q", Some(1))),
                       Entry("A", Category),
                       Entry("b", Boolean(FALSE))>>),
    Config("a.json", <<Entry("k", Integer(I64(FALSE, <<5>>)))>>),
    Config("a.json", <<Entry("k", Choice(<<"a", "b", "c">>, 5)),
                       Entry("k", Color(<<>>, 0))>>),
    Config("a.json", <<Entry("A", Category), Entry("B", Category)>>),
    Config("a.json", <<>>),
    Config("b.json", <<Entry("k", Text(EAcute, None))>>) >>

SampleKeys == {"k", "b", "A"}
SampleIndexes == {-1, 1, 3}
SampleInts == {I64Zero, I64(TRUE, <<1>>)}
SampleStrings == {"a", "ab", EAcute}
Widths == {2, 80}

\* Keys: the codes of each arm, and sampled codes of the default arms.
SpaceEnterKeys == {32, 10, 13}
BackspaceKeys == {KEY_BACKSPACE, 127, 8}
BrowseOtherKeys == {97, -1}
TextOtherKeys == {97, -1}
IntegerOtherKeys == {45, 49, 97}

(***************************************************************************)
(* Initial states                                                          *)
(***************************************************************************)

AtRest ==
    /\ pc = "idle"
    /\ selected = 0
    /\ display_screen = TRUE
    /\ ch = 0
    /\ input = ""
    /\ max_x = 0
    /\ edit_ch = 0
    /\ status_row = ""
    /\ reported = ""
    /\ io = "none"

\* The store was built by Config::load("a.json") from a sampled document.
\* Both settings of the autosave flag's initialiser are explored.
Init ==
    /\ \E i \in 1..Len(SampleConfigs) :
          fs = [p \in Paths |-> IF p = "a.json"
                                THEN FileText(ConfigToJson(SampleConfigs[i]))
                                ELSE Missing]
    /\ cfg = load("a.json", fs)
    /\ SAVE_WHEN_CHANGE \in BOOLEAN
    /\ call = [op |-> "load", key |-> "a.json"]
    /\ ret = Unit
    /\ AtRest
    /\ ClockOff

(***************************************************************************)
(* The store's interface, called by the application                        *)
(***************************************************************************)

\* self.save() inside an operation: the write and how it ended.
Write(c, outcome) ==
    /\ fs' = save_fs(c, fs, outcome)
    /\ io' = outcome

NoWrite ==
    /\ fs' = fs
    /\ io' = "none"

SetOptionCall ==
    /\ pc = "idle"
    /\ \E key \in SampleKeys, value \in SampleIndexes, o \in WriteOutcomes :
          LET stores == set_option_stores(cfg.entries, key, value)
              c == [cfg EXCEPT !.entries = set_option_entries(cfg.entries, key, value)]
          IN  /\ cfg' = c
              /\ IF stores THEN Write(c, o) ELSE (o = "written" /\ NoWrite)
              /\ ret' = [set_option |-> IF stores /\ save_ok(o) THEN Some(value) ELSE None]
              /\ call' = [op |-> "set_option", key |-> key, index |-> value]
    /\ UNCHANGED <<SAVE_WHEN_CHANGE, session>>
    /\ UNCHANGED clock

SetIntCall ==
    /\ pc = "idle"
    /\ \E key \in SampleKeys, value \in SampleInts, o \in WriteOutcomes :
          LET stores == set_int_stores(cfg.entries, key)
              c == [cfg EXCEPT !.entries = set_int_entries(cfg.entries, key, value)]
          IN  /\ cfg' = c
              /\ IF stores THEN Write(c, o) ELSE (o = "written" /\ NoWrite)
              /\ ret' = [set_int |-> Unit]
              /\ call' = [op |-> "set_int", key |-> key, int |-> value]
    /\ UNCHANGED <<SAVE_WHEN_CHANGE, session>>
    /\ UNCHANGED clock

SetBoolCall ==
    /\ pc = "idle"
    /\ \E key \in SampleKeys, value \in BOOLEAN, o \in WriteOutcomes :
          LET stores == set_bool_stores(cfg.entries, key)
              c == [cfg EXCEPT !.entries = set_bool_entries(cfg.entries, key, value)]
          IN  /\ cfg' = c
              /\ IF stores THEN Write(c, o) ELSE (o = "written" /\ NoWrite)
              /\ ret' = [set_bool |-> IF stores /\ save_ok(o) THEN Some(value) ELSE None]
              /\ call' = [op |-> "set_bool", key |-> key, bool |-> value]
    /\ UNCHANGED <<SAVE_WHEN_CHANGE, session>>
    /\ UNCHANGED clock

\* set_string called with one of the values.
SetStringCallWith(values) ==
    /\ pc = "idle"
    /\ \E key \in SampleKeys, value \in values, o \in WriteOutcomes :
          LET stores == set_string_stores(cfg.entries, key, value)
              c == [cfg EXCEPT !.entries = set_string_entries(cfg.entries, key, value)]
          IN  /\ cfg' = c
              /\ IF stores THEN Write(c, o) ELSE (o = "written" /\ NoWrite)
              /\ ret' = [set_string |-> IF stores /\ save_ok(o) THEN Some(TRUE) ELSE None]
              /\ call' = [op |-> "set_string", key |-> key, string |-> value]
    /\ UNCHANGED <<SAVE_WHEN_CHANGE, session>>
    /\ UNCHANGED clock

SetStringCall == SetStringCallWith(SampleStrings)

\* Config::save, called directly.
SaveCall ==
    /\ pc = "idle"
    /\ \E o \in WriteOutcomes :
          /\ Write(cfg, o)
          /\ ret' = [save |-> IF save_ok(o) THEN Ok(Unit) ELSE Err]
    /\ call' = [op |-> "save", key |-> cfg.filename]
    /\ UNCHANGED <<cfg, SAVE_WHEN_CHANGE, session>>
    /\ UNCHANGED clock

GetStringCall ==
    /\ pc = "idle"
    /\ \E key \in SampleKeys :
          /\ ret' = [get_string |-> get_string(cfg.entries, key)]
          /\ call' = [op |-> "get_string", key |-> key]
    /\ NoWrite
    /\ UNCHANGED <<cfg, SAVE_WHEN_CHANGE, session>>
    /\ UNCHANGED clock

GetOptionCall ==
    /\ pc = "idle"
    /\ \E key \in SampleKeys :
          /\ ret' = [get_option |-> get_option(cfg.entries, key)]
          /\ call' = [op |-> "get_option", key |-> key]
    /\ NoWrite
    /\ UNCHANGED <<cfg, SAVE_WHEN_CHANGE, session>>
    /\ UNCHANGED clock

GetIntCall ==
    /\ pc = "idle"
    /\ \E key \in SampleKeys :
          /\ ret' = [get_int |-> get_int(cfg.entries, key)]
          /\ call' = [op |-> "get_int", key |-> key]
    /\ NoWrite
    /\ UNCHANGED <<cfg, SAVE_WHEN_CHANGE, session>>
    /\ UNCHANGED clock

GetBoolCall ==
    /\ pc = "idle"
    /\ \E key \in SampleKeys :
          /\ ret' = [get_bool |-> get_bool(cfg.entries, key)]
          /\ call' = [op |-> "get_bool", key |-> key]
    /\ NoWrite
    /\ UNCHANGED <<cfg, SAVE_WHEN_CHANGE, session>>
    /\ UNCHANGED clock

(***************************************************************************)
(* The editing session: Config::terminal_edit_json                         *)
(***************************************************************************)

\* The top of the loop after an arm that left display_screen true:
\* draw_screen() clears the screen, the status row with it, and the session
\* waits in getch.
Redraw ==
    /\ pc' = "browsing"
    /\ display_screen' = TRUE
    /\ status_row' = ""
    /\ input' = ""
    /\ max_x' = 0

\* An autosave that does not consult the flag.
Autosave_always(c) == \E o \in WriteOutcomes : Write(c, o)

\* if SAVE_WHEN_CHANGE { let _ = self.save(); }
Autosave(c) ==
    IF SAVE_WHEN_CHANGE
    THEN \E o \in WriteOutcomes : Write(c, o)
    ELSE NoWrite

\* The selected entry, when entries.get_mut(selected) is Some.
HasSelected == selected + 1 <= Len(cfg.entries)
Sel == cfg.entries[selected + 1]
WithSelected(v) == [cfg EXCEPT !.entries = SetValue(cfg.entries, selected + 1, v)]

\* terminal_edit_json is entered: the initial selection, the first draw.
StartSession ==
    /\ pc = "idle"
    /\ selected' = InitialSelection(cfg.entries)
    /\ Redraw
    /\ ch' = 0
    /\ edit_ch' = 0
    /\ reported' = ""
    /\ call' = [op |-> "terminal_edit_json", key |-> cfg.filename]
    /\ ret' = Unit
    /\ NoWrite
    /\ UNCHANGED <<cfg, SAVE_WHEN_CHANGE>>
    /\ UNCHANGED clock

KeyUp ==
    /\ pc = "browsing"
    /\ ch' = KEY_UP
    /\ edit_ch' = 0
    /\ selected' = IF cfg.entries = <<>> THEN selected
                   ELSE MoveUp(cfg.entries, selected, selected)
    /\ Redraw
    /\ reported' = ""
    /\ NoWrite
    /\ UNCHANGED <<cfg, SAVE_WHEN_CHANGE, call, ret>>
    /\ UNCHANGED clock

KeyDown ==
    /\ pc = "browsing"
    /\ ch' = KEY_DOWN
    /\ edit_ch' = 0
    /\ selected' = IF cfg.entries = <<>> THEN selected
                   ELSE MoveDown(cfg.entries, selected, selected)
    /\ Redraw
    /\ reported' = ""
    /\ NoWrite
    /\ UNCHANGED <<cfg, SAVE_WHEN_CHANGE, call, ret>>
    /\ UNCHANGED clock

\* An editor that opens with an empty buffer instead of the entry's value.
OpenEditor_empty_buffer ==
    /\ \E w \in Widths : max_x' = w
    /\ input' = ""
    /\ pc' = IF Sel.value.kind = "text" THEN "edit_text" ELSE "edit_integer"
    /\ edit_ch' = 0
    /\ display_screen' = TRUE
    /\ status_row' = IF Sel.value.kind = "text" THEN "Current value (editable):"
                     ELSE "Current value (editable integer):"
    /\ reported' = ""
    /\ NoWrite
    /\ UNCHANGED <<cfg, SAVE_WHEN_CHANGE, selected, call, ret>>

\* edit_text_value / edit_integer_value is entered: the buffer is the current
\* value, the first display of it, the wait in the editor's getch.
OpenEditor ==
    /\ \E w \in Widths :
          /\ max_x' = w
          /\ input' = IF Sel.value.kind = "text" THEN Sel.value.value
                      ELSE I64ToString(Sel.value.value)
          /\ pc' = IF slice_panics(input', w) THEN "aborted"
                   ELSE IF Sel.value.kind = "text" THEN "edit_text"
                   ELSE "edit_integer"
    /\ edit_ch' = 0
    /\ display_screen' = TRUE
    /\ status_row' = IF Sel.value.kind = "text" THEN "Current value (editable):"
                     ELSE "Current value (editable integer):"
    /\ reported' = ""
    /\ NoWrite
    /\ UNCHANGED <<cfg, SAVE_WHEN_CHANGE, selected, call, ret>>

\* Space, Enter.
KeySpaceEnter ==
    /\ pc = "browsing"
    /\ \E k \in SpaceEnterKeys : ch' = k
    /\ \/ /\ HasSelected
          /\ Sel.value.kind \in {"choice", "color"}
          /\ Sel.value.options = <<>>
          /\ Redraw
          /\ edit_ch' = 0
          /\ reported' = ""
          /\ NoWrite
          /\ UNCHANGED <<cfg, SAVE_WHEN_CHANGE, selected, call, ret>>
       \/ /\ HasSelected
          /\ Sel.value.kind \in {"choice", "color"}
          /\ Sel.value.options # <<>>
          /\ cfg' = WithSelected(cycle_forward(Sel.value))
          /\ Autosave(cfg')
          /\ Redraw
          /\ edit_ch' = 0
          /\ reported' = ""
          /\ UNCHANGED <<SAVE_WHEN_CHANGE, selected, call, ret>>
       \/ /\ HasSelected
          /\ Sel.value.kind = "boolean"
          /\ cfg' = WithSelected(toggle(Sel.value))
          /\ Autosave(cfg')
          /\ Redraw
          /\ edit_ch' = 0
          /\ reported' = ""
          /\ UNCHANGED <<SAVE_WHEN_CHANGE, selected, call, ret>>
       \/ /\ HasSelected
          /\ Sel.value.kind \in {"text", "integer"}
          /\ OpenEditor
       \/ /\ HasSelected
          /\ Sel.value.kind = "category"
          /\ reported' = "Category header (not editable)."
          /\ Autosave(cfg)
          /\ Redraw
          /\ edit_ch' = 0
          /\ UNCHANGED <<cfg, SAVE_WHEN_CHANGE, selected, call, ret>>
       \/ /\ ~HasSelected
          /\ reported' = ""
          /\ Autosave(cfg)
          /\ Redraw
          /\ edit_ch' = 0
          /\ UNCHANGED <<cfg, SAVE_WHEN_CHANGE, selected, call, ret>>
    /\ UNCHANGED clock

\* One message for every kind without a modal editor.
EditHint_not_editable(kind) == "Category header (not editable)."

\* edit_entry's status message for a kind that has no modal editor.
EditHint(kind) ==
    CASE kind = "choice" -> "Use ←/→ or Enter to change this choice."
      [] kind = "color" -> "Use ←/→ or Enter to change this color."
      [] kind = "boolean" -> "Use ←/→ or Enter to toggle this boolean."
      [] kind = "category" -> "Category header (not editable)."

\* 'e'.
KeyEdit ==
    /\ pc = "browsing"
    /\ ch' = 101
    /\ \/ /\ HasSelected
          /\ Sel.value.kind \in {"text", "integer"}
          /\ OpenEditor
       \/ /\ HasSelected
          /\ Sel.value.kind \notin {"text", "integer"}
          /\ reported' = EditHint(Sel.value.kind)
          /\ Redraw
          /\ edit_ch' = 0
          /\ NoWrite
          /\ UNCHANGED <<cfg, SAVE_WHEN_CHANGE, selected, call, ret>>
       \/ /\ ~HasSelected
          /\ reported' = ""
          /\ Redraw
          /\ edit_ch' = 0
          /\ NoWrite
          /\ UNCHANGED <<cfg, SAVE_WHEN_CHANGE, selected, call, ret>>
    /\ UNCHANGED clock

\* Left and Right that open the modal editor on a Text or Integer, as Enter
\* does.
KeyLeftRight_opens_editor ==
    /\ pc = "browsing"
    /\ \E k \in {KEY_LEFT, KEY_RIGHT} : ch' = k
    /\ HasSelected
    /\ Sel.value.kind \in {"text", "integer"}
    /\ OpenEditor
    /\ UNCHANGED clock

\* Left, Right.
KeyLeftRight ==
    /\ pc = "browsing"
    /\ \E k \in {KEY_LEFT, KEY_RIGHT} :
          /\ ch' = k
          /\ edit_ch' = 0
          /\ cfg' = IF HasSelected /\ Sel.value.kind \in {"choice", "color"}
                       /\ Sel.value.options # <<>>
                    THEN WithSelected(IF k = KEY_LEFT THEN cycle_backward(Sel.value)
                                      ELSE cycle_forward(Sel.value))
                    ELSE IF HasSelected /\ Sel.value.kind = "boolean"
                    THEN WithSelected(toggle(Sel.value))
                    ELSE cfg
    /\ Redraw
    /\ reported' = ""
    /\ NoWrite
    /\ UNCHANGED <<SAVE_WHEN_CHANGE, selected, call, ret>>
    /\ UNCHANGED clock

\* A save key that does nothing when autosave is on.
KeySave_unless_autosave ==
    /\ pc = "browsing"
    /\ ch' = 115
    /\ edit_ch' = 0
    /\ IF SAVE_WHEN_CHANGE
       THEN NoWrite /\ reported' = ""
       ELSE \E o \in WriteOutcomes :
               /\ Write(cfg, o)
               /\ reported' = IF save_ok(o) THEN "Saved configuration."
                              ELSE "Save failed: "
    /\ Redraw
    /\ UNCHANGED <<cfg, SAVE_WHEN_CHANGE, selected, call, ret>>
    /\ UNCHANGED clock

\* 's'.
KeySave ==
    /\ pc = "browsing"
    /\ ch' = 115
    /\ edit_ch' = 0
    /\ \E o \in WriteOutcomes :
          /\ Write(cfg, o)
          /\ reported' = IF save_ok(o) THEN "Saved configuration."
                         ELSE "Save failed: "
    /\ Redraw
    /\ UNCHANGED <<cfg, SAVE_WHEN_CHANGE, selected, call, ret>>
    /\ UNCHANGED clock

\* Escape: the loop is left and terminal_edit_json returns.
KeyQuit ==
    /\ pc = "browsing"
    /\ ch' = 27
    /\ pc' = "idle"
    /\ selected' = 0
    /\ display_screen' = TRUE
    /\ status_row' = ""
    /\ reported' = ""
    /\ ret' = Unit
    /\ NoWrite
    /\ edit_ch' = 0
    /\ UNCHANGED <<cfg, SAVE_WHEN_CHANGE, input, max_x, call>>
    /\ UNCHANGED clock

\* An unrecognized key after which the screen is drawn again.
KeyOther_redraws ==
    /\ pc = "browsing"
    /\ \E k \in BrowseOtherKeys : ch' = k
    /\ Redraw
    /\ reported' = ""
    /\ NoWrite
    /\ edit_ch' = 0
    /\ UNCHANGED <<cfg, SAVE_WHEN_CHANGE, selected, call, ret>>
    /\ UNCHANGED clock

\* Any other key: no redraw, a 10 ms nap.
KeyOther ==
    /\ pc = "browsing"
    /\ \E k \in BrowseOtherKeys : ch' = k
    /\ display_screen' = FALSE
    /\ reported' = ""
    /\ NoWrite
    /\ edit_ch' = 0
    /\ UNCHANGED <<cfg, SAVE_WHEN_CHANGE, pc, selected, input, max_x, status_row,
                   call, ret>>
    /\ UNCHANGED clock

(***************************************************************************)
(* The modal editors: edit_text_value, edit_integer_value                  *)
(***************************************************************************)

\* The editor returns to the arm of terminal_edit_json that called
\* edit_entry: the Space/Enter arm goes on to its autosave, the 'e' arm has
\* none; then the loop redraws.
ReturnToBrowsing(c, k) ==
    /\ edit_ch' = k
    /\ cfg' = c
    /\ IF ch \in SpaceEnterKeys THEN Autosave(c) ELSE NoWrite
    /\ Redraw
    /\ reported' = ""
    /\ UNCHANGED <<SAVE_WHEN_CHANGE, selected, ch, call, ret>>

\* The editor's loop goes round: the buffer is displayed again (the slice can
\* panic) and the editor waits in getch.
ContinueEditing(in) ==
    /\ input' = in
    /\ pc' = IF slice_panics(in, max_x) THEN "aborted" ELSE pc
    /\ NoWrite
    /\ UNCHANGED <<cfg, SAVE_WHEN_CHANGE, selected, display_screen, ch, max_x,
                   status_row, reported, call, ret>>

\* maximum_size.unwrap_or(4096)
TextLimit(v) == IF v.maximum_size.some THEN v.maximum_size.v ELSE DefaultLimit

EditTextEnter ==
    /\ pc = "edit_text"
    /\ \E k \in {10, 13} :
          ReturnToBrowsing(WithSelected(
              [Sel.value EXCEPT !.value = text_commit(input, Sel.value.value)]), k)
    /\ UNCHANGED clock

\* An Escape in the text editor that ends the session as Escape does in
\* Browsing.
EditTextEsc_ends_session ==
    /\ pc = "edit_text"
    /\ edit_ch' = 27
    /\ pc' = "idle"
    /\ selected' = 0
    /\ display_screen' = TRUE
    /\ status_row' = ""
    /\ input' = ""
    /\ max_x' = 0
    /\ reported' = ""
    /\ ret' = Unit
    /\ NoWrite
    /\ UNCHANGED <<cfg, SAVE_WHEN_CHANGE, ch, call>>
    /\ UNCHANGED clock

EditTextEsc ==
    /\ pc = "edit_text"
    /\ ReturnToBrowsing(cfg, 27)
    /\ UNCHANGED clock

EditTextBackspace ==
    /\ pc = "edit_text"
    /\ \E k \in BackspaceKeys : edit_ch' = k
    /\ ContinueEditing(Pop(input))
    /\ UNCHANGED clock

EditTextOther ==
    /\ pc = "edit_text"
    /\ \E k \in TextOtherKeys :
          /\ edit_ch' = k
          /\ LET in == text_push(input, k, TextLimit(Sel.value))
             IN  /\ in = input \/ Len(input) < MaxInput
                 /\ ContinueEditing(in)
    /\ UNCHANGED clock

EditIntegerEnter ==
    /\ pc = "edit_integer"
    /\ \E k \in {10, 13} :
          ReturnToBrowsing(WithSelected(
              [Sel.value EXCEPT !.value = integer_commit(input, Sel.value.value)]), k)
    /\ UNCHANGED clock

EditIntegerEsc ==
    /\ pc = "edit_integer"
    /\ ReturnToBrowsing(cfg, 27)
    /\ UNCHANGED clock

EditIntegerBackspace ==
    /\ pc = "edit_integer"
    /\ \E k \in BackspaceKeys : edit_ch' = k
    /\ ContinueEditing(Pop(input))
    /\ UNCHANGED clock

EditIntegerOther ==
    /\ pc = "edit_integer"
    /\ \E k \in IntegerOtherKeys :
          /\ edit_ch' = k
          /\ LET in == integer_push(input, k)
             IN  /\ in = input \/ Len(input) < MaxInput
                 /\ ContinueEditing(in)
    /\ UNCHANGED clock

(***************************************************************************)
(* Specification: the application calls the store and runs sessions        *)
(***************************************************************************)

Next ==
    \/ SetOptionCall
    \/ SetIntCall
    \/ SetBoolCall
    \/ SetStringCall
    \/ SaveCall
    \/ StartSession
    \/ KeyUp
    \/ KeyDown
    \/ KeySpaceEnter
    \/ KeyEdit
    \/ KeyLeftRight
    \/ KeySave
    \/ KeyQuit
    \/ KeyOther
    \/ EditTextEnter
    \/ EditTextEsc
    \/ EditTextBackspace
    \/ EditTextOther
    \/ EditIntegerEnter
    \/ EditIntegerEsc
    \/ EditIntegerBackspace
    \/ EditIntegerOther

Spec == Init /\ [][Next]_vars

(***************************************************************************)
(* Specification of the store alone: documents of every shape are loaded   *)
(* and saved                                                               *)
(***************************************************************************)

JEntry(key, value) == JObj(<< <<"key", JStr(key)>>, <<"value", value>> >>)
JDoc(filename, entries) ==
    JObj(<< <<"filename", JStr(filename)>>, <<"entries", JArr(entries)>> >>)
JCategory == JObj(<< <<"kind", JStr("category")>> >>)
JChoice(kind, options, sel) ==
    JObj(<< <<"kind", JStr(kind)>>,
            <<"options", JArr([i \in 1..Len(options) |-> JStr(options[i])])>>,
            <<"selected", sel>> >>)

\* Documents in the persisted format.  Members may come in any order, a Text
\* may leave maximum_size out, and the filename need not be the file's path.
ValidDocs == <<
    JDoc("a.json", << JEntry("A", JCategory),
                      JEntry("k", JChoice("choice", <<"a", "b", "c">>, JNum("2"))) >>),
    JDoc("a.json", << JEntry("k", JObj(<< <<"value", JStr(EAcute)>>,
                                          <<"kind", JStr("text")>> >>)),
                      JEntry("t", JObj(<< <<"kind", JStr("text")>>,
                                          <<"value", JStr("q")>>,
                                          <<"maximum_size", JNum("1")>> >>)),
                      JEntry("u", JObj(<< <<"kind", JStr("text")>>,
                                          <<"maximum_size", JNull>>,
                                          <<"value", JStr("")>> >>)) >>),
    JDoc("a.json", << JEntry("n", JObj(<< <<"kind", JStr("integer")>>,
                                          <<"value", JNum("-9223372036854775808")>> >>)),
                      JEntry("n", JObj(<< <<"kind", JStr("integer")>>,
                                          <<"value", JNum("12")>> >>)),
                      JEntry("b", JObj(<< <<"value", JBool(TRUE)>>,
                                          <<"kind", JStr("boolean")>> >>)) >>),
    JObj(<< <<"entries", JArr(<< JEntry("c", JChoice("color", <<"RED", "BLUE">>,
                                                     JNum("1"))),
                                 JEntry("k", JChoice("choice", <<>>, JNum("0"))) >>)>>,
            <<"filename", JStr("b.json")>> >>),
    JDoc("b.json", <<>>) >>

\* Texts that are not a configuration document.
MalformedDocs == <<
    JInvalid,
    JArr(<<>>),
    JStr("a.json"),
    JObj(<< <<"filename", JStr("a.json")>> >>),
    JObj(<< <<"filename", JStr("a.json")>>, <<"entries", JObj(<<>>)>> >>),
    JDoc("a.json", << JEntry("A", JCategory),
                      JEntry("k", JObj(<< <<"kind", JStr("float")>>,
                                          <<"value", JNum("1.5")>> >>)) >>),
    JDoc("a.json", << JEntry("k", JChoice("choice", <<"a", "b">>, JNum("-1"))) >>),
    JDoc("a.json", << JEntry("k", JChoice("color", <<"a", "b">>, JNum("1.5"))) >>),
    JDoc("a.json", << JEntry("k", JChoice("choice", <<"a", "b">>, JStr("1"))) >>),
    JDoc("a.json", << JEntry("n", JObj(<< <<"kind", JStr("integer")>>,
                                          <<"value", JNum("9223372036854775808")>> >>)) >>),
    JDoc("a.json", << JEntry("k", JObj(<< <<"kind", JStr("text")>>,
                                          <<"value", JNum("5")>> >>)) >>),
    JDoc("a.json", << JEntry("k", JObj(<< <<"kind", JStr("text")>>,
                                          <<"value", JStr("q")>>,
                                          <<"maximum_size", JStr("1")>> >>)) >>),
    JDoc("a.json", << JEntry("b", JObj(<< <<"kind", JStr("boolean")>>,
                                          <<"value", JStr("yes")>> >>)) >>),
    JDoc("a.json", << JEntry("k", JObj(<< <<"value", JStr("q")>> >>)) >>),
    JDoc("a.json", << JObj(<< <<"key", JStr("k")>> >>) >>),
    JDoc("a.json", << JEntry("k", JObj(<< <<"kind", JStr("choice")>>,
                                          <<"options", JArr(<<>>)>>,
                                          <<"selected", JNum("0")>>,
                                          <<"selected", JNum("0")>> >>)) >>) >>

\* What "a.json" holds at the start.
StoreFiles ==
    <<Missing, Unreadable>>
    \o [i \in 1..Len(ValidDocs) |-> FileText(ValidDocs[i])]
    \o [i \in 1..Len(MalformedDocs) |-> FileText(MalformedDocs[i])]

\* The store was built by Config::default.
InitStore ==
    /\ \E i \in 1..Len(StoreFiles) :
          fs = [p \in Paths |-> IF p = "a.json" THEN StoreFiles[i] ELSE Missing]
    /\ \E p \in Paths :
          /\ cfg = Default(p)
          /\ call = [op |-> "default", key |-> p]
    /\ SAVE_WHEN_CHANGE = TRUE
    /\ ret = Unit
    /\ AtRest
    /\ ClockOff

\* Config::load(path): the store is replaced by what load returns.
LoadCall ==
    /\ pc = "idle"
    /\ \E p \in Paths :
          /\ cfg' = load(p, fs)
          /\ call' = [op |-> "load", key |-> p]
    /\ ret' = Unit
    /\ NoWrite
    /\ UNCHANGED <<SAVE_WHEN_CHANGE, session>>
    /\ UNCHANGED clock

\* Config::default(path)
DefaultCall ==
    /\ pc = "idle"
    /\ \E p \in Paths :
          /\ cfg' = Default(p)
          /\ call' = [op |-> "default", key |-> p]
    /\ ret' = Unit
    /\ NoWrite
    /\ UNCHANGED <<SAVE_WHEN_CHANGE, session>>
    /\ UNCHANGED clock

NextStore ==
    \/ LoadCall
    \/ DefaultCall
    \/ SaveCall

SpecStore == InitStore /\ [][NextStore]_vars

(***************************************************************************)
(* Specification of the integer editor on long buffers: the session is     *)
(* taken up inside edit_integer_value, after the keys that typed a buffer  *)
(***************************************************************************)

\* Buffers that digit keys, '-' on an empty buffer and Backspace build within
\* the editor's limit of 32 bytes, up to the ends of the i64 range and past
\* them; the last one is 32 characters long.
IntegerBuffers ==
    <<"", "-", "0", "-0", "007", "-12",
      "9223372036854775807", "9223372036854775808",
      "-9223372036854775808", "-9223372036854775809",
      "99999999999999999999",
      "11111111111111111111111111111110">>

\* The key that the editor's getch returned last, for a buffer.
LastKey(in) ==
    IF in = "" THEN KEY_BACKSPACE
    ELSE LET c == SubSeq(in, Len(in), Len(in))
         IN  IF c = "-" THEN 45 ELSE 48 + DigitVal(c)

\* The session of the document [k: Integer 5], in edit_integer_value on a
\* screen 80 columns wide, waiting for a key with one of the buffers typed.
IntegerEditorOpen ==
    /\ fs = [p \in Paths |-> IF p = "a.json"
                             THEN FileText(ConfigToJson(SampleConfigs[3]))
                             ELSE Missing]
    /\ cfg = load("a.json", fs)
    /\ SAVE_WHEN_CHANGE \in BOOLEAN
    /\ call = [op |-> "terminal_edit_json", key |-> "a.json"]
    /\ ret = Unit
    /\ pc = "edit_integer"
    /\ selected = InitialSelection(cfg.entries)
    /\ display_screen = TRUE
    /\ ch \in {10, 13}
    /\ \E i \in 1..Len(IntegerBuffers) : input = IntegerBuffers[i]
    /\ max_x = 80
    /\ edit_ch = LastKey(input)
    /\ status_row = "Current value (editable integer):"
    /\ reported = ""
    /\ io = "none"
    /\ ClockOff

\* The keys of the editor, then Escape in Browsing: the editor is not opened
\* a second time.
NextIntegerEditor ==
    \/ EditIntegerEnter
    \/ EditIntegerEsc
    \/ EditIntegerBackspace
    \/ EditIntegerOther
    \/ KeyQuit

SpecIntegerEditor == IntegerEditorOpen /\ [][NextIntegerEditor]_vars

(***************************************************************************)
(* Specification of sessions on documents whose Text and Integer entries   *)
(* hold the extreme values, every editor being confirmed or cancelled with *)
(* its first key                                                           *)
(***************************************************************************)

\* Texts: empty, at its maximum_size, longer than its maximum_size (load does
\* not test the length), without maximum_size.  Integers: i64::MIN, i64::MAX,
\* 0 and -1.
ExtremeConfigs == <<
    Config("a.json", <<Entry("k", Text("", None)),
                       Entry("b", Integer(I64Min)),
                       Entry("A", Text("q", Some(1)))>>),
    Config("a.json", <<Entry("k", Integer(I64Max)),
                       Entry("b", Text(EAcute \o "a", Some(1))),
                       Entry("A", Integer(I64Zero))>>),
    Config("a.json", <<Entry("k", Integer(I64(TRUE, <<1>>))),
                       Entry("b", Text("ab", None)),
                       Entry("A", Boolean(TRUE))>>) >>

InitExtremes ==
    /\ \E i \in 1..Len(ExtremeConfigs) :
          fs = [p \in Paths |-> IF p = "a.json"
                                THEN FileText(ConfigToJson(ExtremeConfigs[i]))
                                ELSE Missing]
    /\ cfg = load("a.json", fs)
    /\ SAVE_WHEN_CHANGE \in BOOLEAN
    /\ call = [op |-> "load", key |-> "a.json"]
    /\ ret = Unit
    /\ AtRest
    /\ ClockOff

\* The keys of Browsing, and in an editor Enter and Escape: what is confirmed
\* is the buffer as the editor filled it at opening.
NextConfirmOrCancel ==
    \/ StartSession
    \/ KeyUp
    \/ KeyDown
    \/ KeySpaceEnter
    \/ KeyEdit
    \/ KeyLeftRight
    \/ KeySave
    \/ KeyQuit
    \/ KeyOther
    \/ EditTextEnter
    \/ EditTextEsc
    \/ EditIntegerEnter
    \/ EditIntegerEsc

SpecExtremes == InitExtremes /\ [][NextConfirmOrCancel]_vars

(***************************************************************************)
(* Specification of the store's interface: the application reads and       *)
(* writes entries by key, without a session                                *)
(***************************************************************************)

\* The sampled documents, and two more in which "k" is a Color, "b" an
\* Integer and a Color without options, "A" a Boolean and an empty Text.
ApiConfigs ==
    SampleConfigs
    \o << Config("a.json", <<Entry("k", Color(<<"RED", "BLUE">>, 1)),
                             Entry("b", Integer(I64Min)),
                             Entry("A", Boolean(TRUE))>>),
          Config("a.json", <<Entry("b", Color(<<>>, 0)),
                             Entry("k", Boolean(TRUE)),
                             Entry("A", Text("", None))>>) >>

\* The store was built by Config::load("a.json") from one of the documents.
InitApi ==
    /\ \E i \in 1..Len(ApiConfigs) :
          fs = [p \in Paths |-> IF p = "a.json"
                                THEN FileText(ConfigToJson(ApiConfigs[i]))
                                ELSE Missing]
    /\ cfg = load("a.json", fs)
    /\ SAVE_WHEN_CHANGE \in BOOLEAN
    /\ call = [op |-> "load", key |-> "a.json"]
    /\ ret = Unit
    /\ AtRest
    /\ ClockOff

NextApi ==
    \/ GetStringCall
    \/ GetOptionCall
    \/ GetIntCall
    \/ GetBoolCall
    \/ SetOptionCall
    \/ SetIntCall
    \/ SetBoolCall
    \/ SetStringCall
    \/ SaveCall

SpecApi == InitApi /\ [][NextApi]_vars

(***************************************************************************)
(* Specification of the store's interface on documents in which a key      *)
(* names several entries: load keeps every entry of the list               *)
(***************************************************************************)

\* Each of "k", "b" and "A" names entries of different kinds or values.
DuplicateKeyConfigs == <<
    Config("a.json", <<Entry("k", Boolean(FALSE)),
                       Entry("k", Text("q", None)),
                       Entry("b", Integer(I64(FALSE, <<5>>))),
                       Entry("b", Boolean(TRUE))>>),
    Config("a.json", <<Entry("k", Text("q", Some(1))),
                       Entry("k", Text("", None)),
                       Entry("b", Choice(<<"a", "b">>, 0)),
                       Entry("b", Color(<<"RED", "BLUE">>, 1))>>),
    Config("a.json", <<Entry("k", Choice(<<"a">>, 0)),
                       Entry("A", Category),
                       Entry("k", Choice(<<"a", "b", "c">>, 2)),
                       Entry("A", Boolean(TRUE)),
                       Entry("k", Integer(I64Zero))>>) >>

InitDuplicates ==
    /\ \E i \in 1..Len(DuplicateKeyConfigs) :
          fs = [p \in Paths |-> IF p = "a.json"
                                THEN FileText(ConfigToJson(DuplicateKeyConfigs[i]))
                                ELSE Missing]
    /\ cfg = load("a.json", fs)
    /\ SAVE_WHEN_CHANGE \in BOOLEAN
    /\ call = [op |-> "load", key |-> "a.json"]
    /\ ret = Unit
    /\ AtRest
    /\ ClockOff

SpecDuplicates == InitDuplicates /\ [][NextApi]_vars

(***************************************************************************)
(* Specification of the store's interface with long strings: set_string    *)
(* is also called with values at and past the text editor's default limit  *)
(***************************************************************************)

Twice(s) == s \o s

\* 4096 characters, the text editor's limit for a Text without maximum_size.
AtDefaultLimit ==
    Twice(Twice(Twice(Twice(Twice(Twice(Twice(Twice(Twice(Twice(Twice(Twice("a"))))))))))))

\* Values of 4096 and of 4097 ASCII characters.
LongStrings == {AtDefaultLimit, AtDefaultLimit \o "a"}

SetLongStringCall == SetStringCallWith(LongStrings)

NextLongText ==
    \/ SetLongStringCall
    \/ SetStringCall
    \/ GetStringCall
    \/ SaveCall

SpecLongText == InitApi /\ [][NextLongText]_vars

(***************************************************************************)
(* Config::draw_screen: where the entries are placed on the screen         *)
(***************************************************************************)

\* Area reserved for the list: its first row, and its last row on a screen
\* of max_y rows.
list_top == 3
list_bottom(max_y) == max_y - 3

\* The row of the selected entry: max_y / 2, raised to list_top, then lowered
\* to list_bottom.
center_row(max_y) ==
    LET c == IF max_y \div 2 < list_top THEN list_top ELSE max_y \div 2
    IN  IF c > list_bottom(max_y) THEN list_bottom(max_y) ELSE c

\* The loop over the entries: the row computed for entry i (from 0), and
\* whether the entry is drawn or skipped by the `continue`.
entry_row(max_y, i, sel) == center_row(max_y) + (i - sel)

entry_drawn(max_y, i, sel) ==
    ~(entry_row(max_y, i, sel) < list_top
      \/ entry_row(max_y, i, sel) > list_bottom(max_y))

\* format!("{:<20}", key): the key, filled with spaces on the right up to 20
\* characters; a longer key is left as it is.
RECURSIVE Spaces(_)
Spaces(n) == IF n <= 0 THEN "" ELSE " " \o Spaces(n - 1)

PadKey(key) == key \o Spaces(20 - CharCount(key))

\* options.get(selected).unwrap_or("<?>")
current_option(v) ==
    IF v.selected < Len(v.options) THEN v.options[v.selected + 1] ELSE "<?>"

\* The line pre-rendered for an entry.
rendered_line(entry) ==
    LET v == entry.value
    IN  CASE v.kind = "text" -> PadKey(entry.key) \o " = " \o "\"" \o v.value \o "\""
          [] v.kind \in {"choice", "color"} ->
                PadKey(entry.key) \o " = " \o "[" \o current_option(v) \o "]"
          [] v.kind = "category" -> entry.key
          [] v.kind = "integer" -> PadKey(entry.key) \o " = " \o I64ToString(v.value)
          [] v.kind = "boolean" ->
                PadKey(entry.key) \o " = " \o "[" \o BoolToString(v.flag) \o "]"

\* max_width after the first n entries: the largest line.chars().count().
RECURSIVE max_width(_, _)
max_width(entries, n) ==
    IF n = 0 THEN 0
    ELSE LET width == CharCount(rendered_line(entries[n]))
             before == max_width(entries, n - 1)
         IN  IF width > before THEN width ELSE before

\* A start_col without the comparison of max_x with max_width.
start_col_unguarded(columns, width) == (columns - width) \div 2

\* start_col on a terminal of max_x = columns, which is not negative.
start_col(columns, width) ==
    IF columns > width THEN (columns - width) \div 2 ELSE 0

\* Heights of the terminal, from five rows to a full screen.
Heights == {5, 6, 7, 8, 24}

\* Widths of the terminal: none, as wide as the shortest "key = value" line
\* (24 characters), wider by one and by three, and wider than every line.
DrawWidths == {0, 24, 25, 27, 81}

\* draw_screen(selected, path) on a terminal of max_y rows and max_x columns;
\* what it returns here is the placement of the entries: for each its row,
\* whether it is drawn and its pre-rendered line, and the column they start
\* at.  The selection is an entry of the list, or 0 on an empty list, as in a
\* session.
DrawScreenCall ==
    /\ pc = "idle"
    /\ \E max_y \in Heights, w \in DrawWidths, sel \in 0..Len(cfg.entries) :
          /\ sel < Len(cfg.entries) \/ sel = 0
          /\ call' = [op |-> "draw_screen", key |-> cfg.filename,
                      selected |-> sel, max_y |-> max_y, max_x |-> w]
          /\ ret' = [draw_screen |->
                        [n \in 1..Len(cfg.entries) |->
                            [row |-> entry_row(max_y, n - 1, sel),
                             drawn |-> entry_drawn(max_y, n - 1, sel),
                             line |-> rendered_line(cfg.entries[n])]],
                     start_col |->
                        start_col(w, max_width(cfg.entries, Len(cfg.entries)))]
    /\ NoWrite
    /\ UNCHANGED <<cfg, SAVE_WHEN_CHANGE, session>>
    /\ UNCHANGED clock

NextDraw ==
    \/ DrawScreenCall
    \/ SetOptionCall
    \/ SetBoolCall

SpecDraw == InitApi /\ [][NextDraw]_vars

(***************************************************************************)
(* The clock's display loop (main.rs): the keys read by getch at the end   *)
(* of each iteration                                                       *)
(***************************************************************************)

\* A mode key that stops at the last mode.
next_mode_saturating(x, last) == IF x + 1 > last THEN last ELSE x + 1

\* x += 1; if x > last { x %= last + 1 }.  The counters are i16; x + 1 does
\* not overflow for the values reached here.
next_mode(x, last) ==
    LET y == x + 1
    IN  IF y > last THEN y % (last + 1) ELSE y

\* The vertical radius b, computed from the terminal's size in each
\* iteration: a terminal too small for a clock, and a small one.
ClockRadii == {0, 2}

\* Keys without an arm: no key (nodelay), and a letter.
ClockOtherKeys == {-1, 97}

\* main() has loaded or defaulted the UserConfig and entered the loop.  The
\* counters are the ones of a configuration file with its modes in range;
\* the store and the editor are not in use.
InitClock ==
    /\ \E s \in 0..4, c \in 0..3, n \in 0..2, m \in 0..1 :
          user_config = UserConfig(s, c, n, m, 0)
    /\ clock_pc = "getch"
    /\ fs = [p \in Paths |-> Missing]
    /\ cfg = Config("a.json", <<>>)
    /\ SAVE_WHEN_CHANGE = TRUE
    /\ call = [op |-> "main", key |-> ""]
    /\ ret = Unit
    /\ AtRest

\* One iteration's getch returned k, and the iteration is over; save_config
\* writes the clock's own file and its result is dropped.
ClockKey(k, u) ==
    /\ clock_pc = "getch"
    /\ call' = [op |-> "getch", ch |-> k]
    /\ user_config' = u
    /\ clock_pc' = "getch"
    /\ NoWrite
    /\ UNCHANGED <<cfg, SAVE_WHEN_CHANGE, session, ret>>

\* 'q', 'Q': break.
ClockQuit ==
    /\ clock_pc = "getch"
    /\ \E k \in {113, 81} : call' = [op |-> "getch", ch |-> k]
    /\ clock_pc' = "ended"
    /\ NoWrite
    /\ UNCHANGED <<cfg, SAVE_WHEN_CHANGE, session, ret, user_config>>

\* 's', 'S'
ClockShowSeconds ==
    \E k \in {115, 83} :
       ClockKey(k, [user_config EXCEPT
                       !.show_seconds = next_mode(user_config.show_seconds, 4)])

\* 'c', 'C'
ClockShowCircle ==
    \E k \in {99, 67} :
       ClockKey(k, [user_config EXCEPT
                       !.show_circle = next_mode(user_config.show_circle, 3)])

\* 'n', 'N'
ClockShowNumbers ==
    \E k \in {110, 78} :
       ClockKey(k, [user_config EXCEPT
                       !.show_numbers = next_mode(user_config.show_numbers, 2)])

\* 'm', 'M'
ClockContinuousMinutes ==
    \E k \in {109, 77} :
       ClockKey(k, [user_config EXCEPT
                       !.continuous_minutes =
                           next_mode(user_config.continuous_minutes, 1)])

\* '+': the ellipse is widened while delta_a < b.
ClockWiden ==
    \E b \in ClockRadii :
       ClockKey(43, [user_config EXCEPT
                        !.delta_a = IF @ < b THEN @ + 1 ELSE @])

\* '-': the ellipse is narrowed while delta_a > -b.
ClockNarrow ==
    \E b \in ClockRadii :
       ClockKey(45, [user_config EXCEPT
                        !.delta_a = IF @ > -b THEN @ - 1 ELSE @])

\* Any other key, or none: nothing changes.
ClockOtherKey ==
    \E k \in ClockOtherKeys : ClockKey(k, user_config)

NextClock ==
    \/ ClockShowSeconds
    \/ ClockShowCircle
    \/ ClockShowNumbers
    \/ ClockContinuousMinutes
    \/ ClockWiden
    \/ ClockNarrow
    \/ ClockOtherKey
    \/ ClockQuit

SpecClock == InitClock /\ [][NextClock]_vars

(***************************************************************************)
(* Properties                                                              *)
(***************************************************************************)

InSession == pc \in {"browsing", "edit_text", "edit_integer"}

\* The first entry with the key, as the setters find it.
Found(entries, key) == entries[Find(entries, key)]

\* C1: with autosave enabled, once the session has handled a key event that
\* changed an entry and waits for the next key, the persisted document equals
\* the in-memory store (unless the write itself failed).
C1_AutosavePersistsEveryChange ==
    [][(/\ SAVE_WHEN_CHANGE
        /\ InSession
        /\ pc' = "browsing"
        /\ cfg'.entries # cfg.entries
        /\ io' \notin {"denied", "partial"})
       => fs'[cfg'.filename] = FileText(ConfigToJson(cfg'))]_vars

\* C2: with autosave disabled, no key event of the session other than the
\* save key ('s') changes what the file system holds.
C2_NoWriteWithoutSaveKey ==
    [][(~SAVE_WHEN_CHANGE /\ InSession /\ ch' # 115) => fs' = fs]_vars

\* Autosave is off and the Space/Enter arm has just returned from a modal
\* editor confirmed with Enter: the store differs from the file.
C2_Witness ==
    /\ ~SAVE_WHEN_CHANGE
    /\ pc = "browsing"
    /\ ch \in SpaceEnterKeys
    /\ edit_ch \in {10, 13}
    /\ io = "none"
    /\ fs[cfg.filename] # FileText(ConfigToJson(cfg))

\* The arguments set_option is to reject.
InvalidOption(entries, key, idx) ==
    \/ idx < 0
    \/ \A i \in 1..Len(entries) : entries[i].key # key
    \/ /\ \E i \in 1..Len(entries) : entries[i].key = key
       /\ \/ Found(entries, key).value.kind \notin {"choice", "color"}
          \/ idx >= Len(Found(entries, key).value.options)

\* C3: set_option(key, idx) returns None and leaves the store as it was when
\* idx < 0, idx >= the number of options, the entry found is no Choice or
\* Color, or no entry has the key.
C3_SetOptionRejects ==
    [][(/\ pc = "idle"
        /\ call'.op = "set_option"
        /\ InvalidOption(cfg.entries, call'.key, call'.index))
       => (ret'.set_option = None /\ cfg' = cfg /\ fs' = fs)]_vars

\* set_option was called with idx = the number of options of a Choice, and
\* it returned None.
C3_Witness ==
    /\ call.op = "set_option"
    /\ Find(cfg.entries, call.key) # 0
    /\ Found(cfg.entries, call.key).value.kind = "choice"
    /\ call.index = Len(Found(cfg.entries, call.key).value.options)
    /\ call.index > 0
    /\ ret.set_option = None

\* C4: for a Text entry with a declared maximum_size, set_string(k, v)
\* succeeds iff the length of v in characters is <= maximum_size; an accepted
\* value is stored, a rejected one leaves the store unchanged (the write is
\* taken to succeed).
C4_SetStringCountsCharacters ==
    [][(/\ pc = "idle"
        /\ call'.op = "set_string"
        /\ Find(cfg.entries, call'.key) # 0
        /\ Found(cfg.entries, call'.key).value.kind = "text"
        /\ Found(cfg.entries, call'.key).value.maximum_size.some
        /\ io' \notin {"denied", "partial"})
       => LET fits == CharCount(call'.string)
                         <= Found(cfg.entries, call'.key).value.maximum_size.v
          IN  /\ (ret'.set_string = Some(TRUE)) <=> fits
              /\ fits => Found(cfg'.entries, call'.key).value.value = call'.string
              /\ ~fits => cfg' = cfg]_vars

\* C5: set_int(key, v) and set_bool(key, v) return the failure indicator
\* (None) and change no entry when the entry found has another kind or no
\* entry has the key.
C5_SetIntSetBoolReportFailure ==
    [][(/\ pc = "idle"
        /\ call'.op \in {"set_int", "set_bool"}
        /\ \/ Find(cfg.entries, call'.key) = 0
           \/ Found(cfg.entries, call'.key).value.kind
                 # (IF call'.op = "set_int" THEN "integer" ELSE "boolean"))
       => (ret' \in {[set_int |-> None], [set_bool |-> None]}
           /\ cfg'.entries = cfg.entries)]_vars

\* Every Choice and Color with options has its selected index among them.
SelectedInBounds(entries) ==
    \A i \in 1..Len(entries) :
        (entries[i].value.kind \in {"choice", "color"}
         /\ entries[i].value.options # <<>>)
        => entries[i].value.selected < Len(entries[i].value.options)

\* C6: in every state that a setter call or a key event of the session
\* reaches by changing an entry, every Choice and Color entry with a non-empty
\* option list has selected < len(options).
C6_SelectedAlwaysInBounds ==
    [][cfg'.entries # cfg.entries => SelectedInBounds(cfg'.entries)]_vars

\* C7: once the list has a non-Category entry, the session's selection is
\* an entry of the list that is no Category.
C7_SelectionNeverOnCategory ==
    (InSession /\ \E i \in 1..Len(cfg.entries) : ~IsCategory(cfg.entries[i]))
    => (selected < Len(cfg.entries) /\ ~IsCategory(cfg.entries[selected + 1]))

\* Down has moved the selection over a Category to the entry after it.
C7_Witness ==
    /\ pc = "browsing"
    /\ ch = KEY_DOWN
    /\ selected = 2
    /\ Len(cfg.entries) = 3
    /\ IsCategory(cfg.entries[2])
    /\ ~IsCategory(cfg.entries[3])

\* C8: load(path) returns (the process is not aborted), and when the file is
\* missing, unreadable or holds a text that is no configuration document, the
\* store is the default entry list with the path as filename.
C8_LoadFallsBackToDefault ==
    (/\ call.op = "load"
     /\ \/ fs[call.key] \in {Missing, Unreadable}
        \/ \E i \in 1..Len(MalformedDocs) : fs[call.key] = FileText(MalformedDocs[i]))
    => (pc = "idle" /\ cfg = Config(call.key, DefaultEntries))

\* A document whose first entry is well formed and whose second is not was
\* loaded: nothing of it is in the store.
C8_Witness ==
    /\ call.op = "load"
    /\ fs[call.key] = FileText(MalformedDocs[6])
    /\ cfg.entries = DefaultEntries
    /\ cfg.filename = call.key

\* The members of a JSON object that the format knows, an absent
\* maximum_size being null.
Field(o, name) == IF HasMember(o, name) THEN Member(o, name) ELSE JNull

\* Two values of the persisted format have the same kind and the same
\* kind-specific fields.
SameValue(x, y) ==
    /\ Field(x.o, "kind") = Field(y.o, "kind")
    /\ LET kind == Field(x.o, "kind").s
       IN  CASE kind = "text" ->
                  /\ Field(x.o, "value") = Field(y.o, "value")
                  /\ Field(x.o, "maximum_size") = Field(y.o, "maximum_size")
             [] kind \in {"choice", "color"} ->
                  /\ Field(x.o, "options") = Field(y.o, "options")
                  /\ Field(x.o, "selected") = Field(y.o, "selected")
             [] kind \in {"integer", "boolean"} ->
                  Field(x.o, "value") = Field(y.o, "value")
             [] OTHER -> TRUE

\* Two documents have the same entries in the same order.
SameContent(x, y) ==
    /\ x.t = "obj" /\ y.t = "obj"
    /\ Field(x.o, "entries").t = "arr" /\ Field(y.o, "entries").t = "arr"
    /\ LET xs == Field(x.o, "entries").a
           ys == Field(y.o, "entries").a
       IN  /\ Len(xs) = Len(ys)
           /\ \A i \in 1..Len(xs) :
                 /\ Field(xs[i].o, "key") = Field(ys[i].o, "key")
                 /\ SameValue(Field(xs[i].o, "value"), Field(ys[i].o, "value"))

\* The file holds one of the valid documents.
HoldsValidDoc(f) == \E i \in 1..Len(ValidDocs) : f = FileText(ValidDocs[i])

\* C9: a valid document X that was loaded and is saved again is written as a
\* document with the same entries in the same order, each with the same key,
\* kind, kind-specific fields and selected index.
C9_LoadSaveRoundTrip ==
    [][(/\ call.op = "load"
        /\ HoldsValidDoc(fs[call.key])
        /\ call'.op = "save"
        /\ io' = "written")
       => /\ fs'[cfg.filename].t = "text"
          /\ SameContent(fs'[cfg.filename].json, fs[call.key].json)]_vars

\* The document at "a.json", whose filename member is "b.json", was loaded
\* and saved: the copy at "b.json" has its content, in the serializer's form.
C9_Witness ==
    /\ call.op = "save"
    /\ io = "written"
    /\ fs["a.json"] = FileText(ValidDocs[4])
    /\ fs["b.json"].t = "text"
    /\ fs["b.json"] # fs["a.json"]
    /\ SameContent(fs["b.json"].json, ValidDocs[4])

\* C10: the session ends only by Escape read in the Browsing state: every
\* step that leaves the session is that one, and none aborts the process.
C10_OnlyEscapeEndsSession ==
    [][(InSession /\ ~InSession')
       => (pc = "browsing" /\ ch' = 27 /\ pc' = "idle")]_vars

\* C11: a save that fails while the session handles a key, be it the save
\* key's or an autosave's, is reported on the status line, and the session
\* goes on in Browsing.
C11_SaveFailureReported ==
    [][(InSession /\ io' \in {"denied", "partial"})
       => (reported' = "Save failed: " /\ pc' = "browsing")]_vars

\* n cycle-forward operations applied to a Choice or Color.
RECURSIVE Cycles(_, _)
Cycles(v, n) == IF n = 0 THEN v ELSE Cycles(cycle_forward(v), n - 1)

\* C12: for every Choice or Color of the store with N >= 1 options and an
\* in-bounds selected index, N cycle-forward operations (what Enter, Space and
\* Right apply) give back the selected index, and no k with 0 < k < N does.
C12_CycleForwardHasPeriodN ==
    \A i \in 1..Len(cfg.entries) :
        LET v == cfg.entries[i].value
        IN  (/\ v.kind \in {"choice", "color"}
             /\ Len(v.options) >= 1
             /\ v.selected < Len(v.options))
            => /\ Cycles(v, Len(v.options)) = v
               /\ \A k \in 1..(Len(v.options) - 1) : Cycles(v, k).selected # v.selected

\* Right has just been handled on a Choice of three options and left it on
\* its first option: the cycle has wrapped.
C12_Witness ==
    /\ pc = "browsing"
    /\ ch = KEY_RIGHT
    /\ HasSelected
    /\ Sel.value.kind = "choice"
    /\ Len(Sel.value.options) = 3
    /\ Sel.value.selected = 0
    /\ Len(cfg.entries) = 2
    /\ IsCategory(cfg.entries[1])

\* C13: when the text editor returns to Browsing, Enter has stored exactly
\* the buffer in the selected field and has changed nothing else of the store,
\* and Escape has left the whole store as it was, whatever the buffer held.
C13_TextEnterCommitsEscapeDiscards ==
    [][(pc = "edit_text" /\ pc' = "browsing")
       => /\ edit_ch' \in {10, 13, 27}
          /\ Len(cfg'.entries) = Len(cfg.entries)
          /\ cfg'.filename = cfg.filename
          /\ \A i \in 1..Len(cfg.entries) :
                IF i = selected + 1 /\ edit_ch' \in {10, 13}
                THEN /\ cfg'.entries[i].key = cfg.entries[i].key
                     /\ cfg'.entries[i].value.kind = "text"
                     /\ cfg'.entries[i].value.value = input
                     /\ cfg'.entries[i].value.maximum_size
                           = cfg.entries[i].value.maximum_size
                ELSE cfg'.entries[i] = cfg.entries[i]]_vars

\* Enter has just committed a buffer that a key was typed into: the field
\* holds the typed text, which no sample and no setter argument contains.
C13_Witness ==
    /\ pc = "browsing"
    /\ edit_ch \in {10, 13}
    /\ HasSelected
    /\ Sel.value.kind = "text"
    /\ Sel.value.value \in {EAcute \o "a", "qa"}

\* The i64 that a buffer denotes, for the buffers of digits with an optional
\* leading minus sign that lie in the i64 range.
DenotesI64(in, v) ==
    /\ in # "" /\ in # "-"
    /\ LET neg == SubSeq(in, 1, 1) = "-"
           body == IF neg THEN SubSeq(in, 2, Len(in)) ELSE in
       IN  /\ AllDigits(body)
           /\ v.mag = StripZeros(DigitsOf(body))
           /\ v.neg = (neg /\ v.mag # <<0>>)
           /\ DigitsLeq(v.mag, IF neg THEN I64MinMag ELSE I64MaxMag)

\* C14: when the integer editor returns to Browsing on Enter, an empty buffer
\* and a lone minus sign have stored 0, a buffer that denotes an i64 has stored
\* that i64 (i64::MIN included), and any other buffer (one past either end of
\* the range, say) has left the value as it was; on Escape the store is as it
\* was.
C14_IntegerEnterParsesEscapeDiscards ==
    [][(pc = "edit_integer" /\ pc' = "browsing")
       => LET old == Sel.value.value
              new == cfg'.entries[selected + 1].value.value
          IN  /\ edit_ch' \in {10, 13, 27}
              /\ edit_ch' = 27 => cfg' = cfg
              /\ edit_ch' \in {10, 13} =>
                    /\ cfg' = WithSelected(Integer(new))
                    /\ input \in {"", "-"} => new = I64Zero
                    /\ DenotesI64(input, new) \/ new = old \/ input \in {"", "-"}
                    /\ (\E v \in {I64Zero, I64Min, I64Max, I64(FALSE, <<7>>),
                                  I64(TRUE, <<1, 2>>), I64(FALSE, <<1>>),
                                  I64(TRUE, <<1>>), I64(FALSE, <<5>>),
                                  I64(FALSE, <<1, 1>>), I64(FALSE, <<5, 1>>),
                                  I64(TRUE, <<1, 1>>)} :
                           DenotesI64(input, v)) => DenotesI64(input, new)
                    /\ input = "9223372036854775808" => new = old
                    /\ input = "-9223372036854775809" => new = old
                    /\ input = "-9223372036854775808" => new = I64Min]_vars

\* Enter has just committed the buffer "-9223372036854775808": the field
\* holds i64::MIN.
C14_Witness ==
    /\ pc = "browsing"
    /\ edit_ch \in {10, 13}
    /\ HasSelected
    /\ Sel.value = Integer(I64Min)

\* The schema of a store: its keys and kinds, in order.
KeyKinds(entries) ==
    [i \in 1..Len(entries) |-> <<entries[i].key, entries[i].value.kind>>]

\* C15: no step of the application, setter call or key event of a session,
\* adds, deletes or reorders entries or changes a key or a kind: the sequence
\* of (key, kind) pairs is the same after the step as before it.
C15_SchemaIsFixed ==
    [][KeyKinds(cfg'.entries) = KeyKinds(cfg.entries)]_vars

\* The integer editor has just committed a typed buffer to the store: the
\* entry's value has changed, its key and kind have not.
C15_Witness ==
    /\ pc = "browsing"
    /\ edit_ch \in {10, 13}
    /\ call.op = "terminal_edit_json"
    /\ KeyKinds(cfg.entries) = << <<"k", "integer">> >>
    /\ Sel.value = Integer(I64(FALSE, <<5, 1>>))

\* What the claim's words give for get_string, read as a complete list: a
\* Choice or Color always has a selected option string.
GetStringAsListed(entries, key, r) ==
    IF Find(entries, key) = 0 THEN r = None
    ELSE LET v == Found(entries, key).value
         IN  /\ v.kind = "text" => r = Some(v.value)
             /\ v.kind \in {"choice", "color"} =>
                   /\ v.selected < Len(v.options)
                   /\ r = Some(v.options[v.selected + 1])
             /\ v.kind = "integer" => r = Some(I64ToString(v.value))
             /\ v.kind = "boolean" => r = Some(IF v.flag THEN "true" ELSE "false")
             /\ v.kind = "category" => r = None

KindIs(entries, key, kinds) ==
    Find(entries, key) # 0 /\ Found(entries, key).value.kind \in kinds

C18_SetOptionThenGet ==
    [][/\ (call'.op = "set_option" /\ ret'.set_option.some) =>
             LET v == Found(cfg'.entries, call'.key).value
             IN  /\ ret'.set_option = Some(call'.index)
                 /\ v.kind \in {"choice", "color"}
                 /\ v.selected = call'.index
                 /\ fs'[cfg'.filename] = FileText(ConfigToJson(cfg'))
                 /\ get_option(cfg'.entries, call'.key) = call'.index
                 /\ get_string(cfg'.entries, call'.key)
                       = Some(v.options[call'.index + 1])
       /\ (/\ call.op = "set_option" /\ ret.set_option.some
           /\ call'.op = "get_option" /\ call'.key = call.key)
          => ret'.get_option = call.index
       /\ (/\ call.op = "set_option" /\ ret.set_option.some
           /\ call'.op = "get_string" /\ call'.key = call.key)
          => ret'.get_string
                = Some(Found(cfg.entries, call.key).value.options[call.index + 1])]_vars

\* set_option("k", 1) has just succeeded on a Choice whose first option was
\* selected when the document was loaded.
C18_Witness ==
    /\ call.op = "set_option"
    /\ call.index = 1
    /\ ret.set_option = Some(1)
    /\ Found(cfg.entries, call.key).value = Choice(<<"a", "b", "c">>, 1)
    /\ io = "written"

\* C19: every step that handles the save key in Browsing, with autosave on or
\* off, writes the store to its file and gives the status line the outcome:
\* "Saved configuration." when the file now holds the whole store, "Save
\* failed: ..." when the write failed; the store and the mode are as before.
C19_SaveKeyAlwaysSaves ==
    [][(pc = "browsing" /\ ch' = 115)
       => /\ io' \in WriteOutcomes
          /\ io' = "written"
             => /\ fs'[cfg.filename] = FileText(ConfigToJson(cfg))
                /\ reported' = "Saved configuration."
          /\ io' # "written" => reported' = "Save failed: "
          /\ cfg' = cfg
          /\ pc' = "browsing"]_vars

\* With autosave on, the save key has just been handled on a store that was
\* changed after it was loaded: the file holds it and success is reported.
C19_Witness ==
    /\ SAVE_WHEN_CHANGE
    /\ pc = "browsing"
    /\ ch = 115
    /\ io = "written"
    /\ reported = "Saved configuration."
    /\ fs[cfg.filename] = FileText(ConfigToJson(cfg))
    /\ HasSelected
    /\ Sel.value = Choice(<<"a", "b", "c">>, 1)

\* The indices of the entries that are not a Category, among a set of indices.
Selectable(entries, S) ==
    {i \in S : i + 1 <= Len(entries) /\ ~IsCategory(entries[i + 1])}

\* C20: a step that handles Up in Browsing selects the largest index below
\* the selection whose entry is not a Category, one that handles Down the
\* smallest such index above it; when there is none the selection stays, so
\* it never wraps, and a selection inside the list stays inside it.  The store
\* is not changed.
C20_MoveSkipsCategoriesNoWrap ==
    [][(pc = "browsing" /\ ch' \in {KEY_UP, KEY_DOWN})
       => LET below == Selectable(cfg.entries, 0..(selected - 1))
              above == Selectable(cfg.entries, (selected + 1)..(Len(cfg.entries) - 1))
          IN  /\ (ch' = KEY_UP /\ below # {})
                 => (selected' \in below /\ \A i \in below : i <= selected')
              /\ (ch' = KEY_UP /\ below = {}) => selected' = selected
              /\ (ch' = KEY_DOWN /\ above # {})
                 => (selected' \in above /\ \A i \in above : selected' <= i)
              /\ (ch' = KEY_DOWN /\ above = {}) => selected' = selected
              /\ selected < Len(cfg.entries) => selected' < Len(cfg.entries)
              /\ cfg' = cfg
              /\ pc' = "browsing"]_vars

\* Up has just been handled with the selection on the entry after a leading
\* Category: there was nothing to move to, and the selection has stayed.
C20_Witness ==
    /\ pc = "browsing"
    /\ ch = KEY_UP
    /\ selected = 1
    /\ Len(cfg.entries) = 2
    /\ IsCategory(cfg.entries[1])
    /\ ~IsCategory(cfg.entries[2])

\* C21: when a session starts, the selection is the smallest index whose entry
\* is not a Category, and 0 when the list has no such entry (an empty list
\* included).
C21_InitialSelectionFirstNonCategory ==
    [][(pc = "idle" /\ pc' = "browsing")
       => LET open == Selectable(cfg.entries, 0..(Len(cfg.entries) - 1))
          IN  /\ open # {} => (selected' \in open /\ \A i \in open : selected' <= i)
              /\ open = {} => selected' = 0
              /\ cfg' = cfg]_vars

\* The session has just started, no key has been read, on a list whose first
\* entry is a Category: the selection is on the second entry.
C21_Witness ==
    /\ pc = "browsing"
    /\ ch = 0
    /\ call.op = "terminal_edit_json"
    /\ selected = 1
    /\ IsCategory(cfg.entries[1])
    /\ ~IsCategory(cfg.entries[2])

\* A step handles key k in Browsing with the selection on an entry of one of
\* the kinds.
HandlesOn(keys, kinds) ==
    /\ pc = "browsing"
    /\ ch' \in keys
    /\ HasSelected
    /\ Sel.value.kind \in kinds

\* Only the selected entry's value may differ after the step.
OnlySelectedValueChanges ==
    /\ cfg'.filename = cfg.filename
    /\ Len(cfg'.entries) = Len(cfg.entries)
    /\ \A i \in 1..Len(cfg.entries) :
          /\ cfg'.entries[i].key = cfg.entries[i].key
          /\ i # selected + 1 => cfg'.entries[i] = cfg.entries[i]
    /\ selected' = selected

\* C22: on a selected Choice or Color, Enter, Space and Right set selected to
\* (selected + 1) mod len(options), Left sets it to len(options) - 1 when it
\* is 0 and to selected - 1 otherwise, and with an empty option list each of
\* these keys leaves the store as it was; the kind and the options stay.
C22_CyclingKeys ==
    [][HandlesOn({32, 10, 13, KEY_LEFT, KEY_RIGHT}, {"choice", "color"})
       => LET old == Sel.value
              new == cfg'.entries[selected + 1].value
              n == Len(old.options)
          IN  /\ pc' = "browsing"
              /\ OnlySelectedValueChanges
              /\ n = 0 => cfg' = cfg
              /\ new.kind = old.kind
              /\ new.options = old.options
              /\ (n > 0 /\ ch' \in {32, 10, 13, KEY_RIGHT})
                 => new.selected = (old.selected + 1) % n
              /\ (n > 0 /\ ch' = KEY_LEFT /\ old.selected = 0)
                 => new.selected = n - 1
              /\ (n > 0 /\ ch' = KEY_LEFT /\ old.selected # 0)
                 => new.selected = old.selected - 1]_vars

\* Left has just been handled on the Choice of [Category, Choice(a, b, c)]
\* and has left it on its last option: it was on the first.
C22_Witness ==
    /\ pc = "browsing"
    /\ ch = KEY_LEFT
    /\ Len(cfg.entries) = 2
    /\ IsCategory(cfg.entries[1])
    /\ selected = 1
    /\ Sel.value = Choice(<<"a", "b", "c">>, 2)

\* C23: on a selected Boolean, each of Enter, Space, Left and Right stores the
\* inverse of the value, whatever the direction, and changes nothing else of
\* the store; the inversion applied twice gives the value back.
C23_BooleanKeysInvert ==
    [][HandlesOn({32, 10, 13, KEY_LEFT, KEY_RIGHT}, {"boolean"})
       => LET old == Sel.value
              new == cfg'.entries[selected + 1].value
          IN  /\ pc' = "browsing"
              /\ OnlySelectedValueChanges
              /\ new.kind = "boolean"
              /\ new.flag = ~old.flag
              /\ toggle(new) = old
              /\ toggle(toggle(old)) = old]_vars

\* Left has just been handled on the Boolean of the second sample document,
\* which now holds true.
C23_Witness ==
    /\ pc = "browsing"
    /\ ch = KEY_LEFT
    /\ HasSelected
    /\ Sel.key = "b"
    /\ Sel.value = Boolean(TRUE)

\* C24: a step that handles Left or Right in Browsing with the selection on a
\* Text, an Integer or a Category changes neither the store, nor the file,
\* nor the selection, and the session is still in Browsing.
C24_LeftRightInertOnOtherKinds ==
    [][HandlesOn({KEY_LEFT, KEY_RIGHT}, {"text", "integer", "category"})
       => /\ cfg' = cfg
          /\ fs' = fs
          /\ selected' = selected
          /\ pc' = "browsing"]_vars

\* Right has just been handled with the selection on the Integer 5.
C24_Witness ==
    /\ pc = "browsing"
    /\ ch = KEY_RIGHT
    /\ HasSelected
    /\ Sel.value = Integer(I64(FALSE, <<5>>))

\* C25: a step that handles the edit key 'e' in Browsing leaves the session in
\* the text editor only on a Text and in the integer editor only on an
\* Integer; on a Choice, Color, Boolean or Category it hands the status line
\* the hint of that kind, stays in Browsing and leaves the store and the file
\* as they were.
C25_EditKeyOpensModalOnlyForTextInteger ==
    [][(pc = "browsing" /\ ch' = 101)
       => /\ pc' = "edit_text" => (HasSelected /\ Sel.value.kind = "text")
          /\ pc' = "edit_integer" => (HasSelected /\ Sel.value.kind = "integer")
          /\ (HasSelected /\ Sel.value.kind \in {"choice", "color", "boolean", "category"})
             => /\ pc' = "browsing"
                /\ cfg' = cfg
                /\ fs' = fs
                /\ selected' = selected
                /\ Sel.value.kind = "choice"
                   => reported' = "Use ←/→ or Enter to change this choice."
                /\ Sel.value.kind = "color"
                   => reported' = "Use ←/→ or Enter to change this color."
                /\ Sel.value.kind = "boolean"
                   => reported' = "Use ←/→ or Enter to toggle this boolean."
                /\ Sel.value.kind = "category"
                   => reported' = "Category header (not editable)."]_vars

\* The edit key has just been handled on a Boolean: the hint was given and
\* the session is in Browsing.
C25_Witness ==
    /\ pc = "browsing"
    /\ ch = 101
    /\ HasSelected
    /\ Sel.value.kind = "boolean"
    /\ reported = "Use ←/→ or Enter to toggle this boolean."

\* C26: no step stores a value longer than 4096 characters in a Text entry
\* that has no declared maximum_size.
C26_DefaultCapInEveryPath ==
    [][\A i \in 1..Len(cfg.entries) :
          (/\ cfg.entries[i].value.kind = "text"
           /\ ~cfg.entries[i].value.maximum_size.some
           /\ cfg'.entries[i].value # cfg.entries[i].value)
          => CharCount(cfg'.entries[i].value.value) <= DefaultLimit]_vars

\* The effective cap of a Text: its maximum_size, 4096 without one.
EffectiveCap(v) == IF v.maximum_size.some THEN v.maximum_size.v ELSE DefaultLimit

\* C27: in the text editor a key appends a character only to a buffer shorter
\* than the effective cap, and appends just one; when the field's value is
\* within the cap, the buffer is within the cap and what Enter stores is within
\* the cap; Backspace removes the last character and leaves an empty buffer
\* empty.
C27_TextBufferWithinCap ==
    [][(pc = "edit_text" /\ CharCount(Sel.value.value) <= EffectiveCap(Sel.value))
       => LET cap == EffectiveCap(Sel.value)
          IN  /\ CharCount(input) <= cap
              /\ (pc' # "browsing" /\ edit_ch' \notin BackspaceKeys)
                 => \/ input' = input
                    \/ /\ CharCount(input) < cap
                       /\ CharCount(input') = CharCount(input) + 1
                       /\ SubSeq(input', 1, Len(input)) = input
              /\ (pc' # "browsing" /\ edit_ch' \in BackspaceKeys)
                 => IF input = "" THEN input' = ""
                    ELSE /\ CharCount(input') = CharCount(input) - 1
                         /\ input' \o SubSeq(input, Len(input), Len(input)) = input
              /\ (pc' = "browsing" /\ edit_ch' \in {10, 13})
                 => CharCount(cfg'.entries[selected + 1].value.value) <= cap]_vars

\* In the editor of a Text whose maximum_size is 1, the key 'a' has just been
\* read with the buffer at one character: the buffer is still one character.
C27_Witness ==
    /\ pc = "edit_text"
    /\ edit_ch = 97
    /\ Sel.value.maximum_size = Some(1)
    /\ CharCount(input) = 1

\* A buffer of ASCII digits after an optional single leading minus sign.
SignedDigits(s) ==
    AllDigits(IF s # "" /\ SubSeq(s, 1, 1) = "-" THEN SubSeq(s, 2, Len(s)) ELSE s)

\* C28: in the integer editor the buffer is an optional leading minus sign
\* followed by digits only, of at most 32 characters, before and after every
\* key; a minus sign is taken only by an empty buffer, a key that is neither a
\* digit nor a minus sign is ignored, and nothing is appended to a buffer of 32
\* characters.
C28_IntegerBufferShape ==
    [][pc = "edit_integer"
       => /\ SignedDigits(input) /\ Len(input) <= IntegerLimit
          /\ pc' # "browsing"
             => /\ SignedDigits(input') /\ Len(input') <= IntegerLimit
                /\ edit_ch' = 45 => input' = (IF input = "" THEN "-" ELSE input)
                /\ edit_ch' = 97 => input' = input
                /\ (Len(input) = IntegerLimit /\ edit_ch' \notin BackspaceKeys)
                   => input' = input]_vars

\* The digit key '1' has just been read with the buffer at 32 characters, and
\* the buffer is as it was.
C28_Witness ==
    /\ pc = "edit_integer"
    /\ edit_ch = 49
    /\ input = "11111111111111111111111111111110"

\* The keys that the session's match names.
RecognizedKeys == {KEY_UP, KEY_DOWN, 32, 10, 13, 101, KEY_LEFT, KEY_RIGHT, 115, 27}

\* C29: an iteration of the session's loop that handles a recognized key and
\* goes on to wait for the next key in Browsing has applied the key, then
\* saved (when it saves, the file holds the store as the key left it), then
\* drawn the screen; an iteration that reads an unrecognized key changes
\* neither the store nor the selection, writes nothing and does not draw.
C29_IterationOrder ==
    [][/\ (InSession /\ pc' = "browsing" /\ ch' \in RecognizedKeys)
          => /\ display_screen'
             /\ io' = "written" => fs'[cfg'.filename] = FileText(ConfigToJson(cfg'))
             /\ io' = "none" => fs' = fs
       /\ (pc = "browsing" /\ ch' \notin RecognizedKeys)
          => /\ cfg' = cfg
             /\ selected' = selected
             /\ fs' = fs /\ io' = "none"
             /\ ~display_screen'
             /\ pc' = "browsing"]_vars

\* The key 'a' has just been read in Browsing: the session waits for the next
\* key without having drawn the screen.
C29_Witness ==
    /\ pc = "browsing"
    /\ ch = 97
    /\ ~display_screen
    /\ io = "none"

\* C30: draw_screen places the selected entry on the center row, inside the
\* list region, on a terminal of any height: the center row is between the
\* first and the last row of the region, entry i is given the row center_row
\* + (i - selected), an entry is skipped exactly when its row is outside the
\* region, and the selected entry is drawn.
C30_SelectedEntryDrawnOnCenterRow ==
    (call.op = "draw_screen" /\ call.selected < Len(cfg.entries))
    => LET h == call.max_y
           c == ret.draw_screen[call.selected + 1].row
       IN  /\ 3 <= c /\ c <= h - 3
           /\ \A n \in 1..Len(cfg.entries) :
                 /\ ret.draw_screen[n].row = c + ((n - 1) - call.selected)
                 /\ ret.draw_screen[n].drawn
                    <=> (3 <= ret.draw_screen[n].row /\ ret.draw_screen[n].row <= h - 3)
           /\ ret.draw_screen[call.selected + 1].drawn

\* C31: the left margin of the list is (viewport width - max_width) / 2 with
\* integer division, max_width being the length of the longest rendered
\* line; it is 0 whenever the list is at least as wide as the viewport, and
\* it is never negative.
C31_LeftMarginCentersList ==
    call.op = "draw_screen"
    => LET lines == ret.draw_screen
           longest == IF Len(lines) = 0 THEN 0
                      ELSE CHOOSE w \in {Len(lines[n].line) : n \in 1..Len(lines)} :
                              \A n \in 1..Len(lines) : Len(lines[n].line) <= w
       IN  /\ ret.start_col >= 0
           /\ longest >= call.max_x => ret.start_col = 0
           /\ longest < call.max_x
              => /\ 2 * ret.start_col <= call.max_x - longest
                 /\ call.max_x - longest <= 2 * ret.start_col + 1

\* draw_screen ran on a list wider than the viewport (margin 0), and on one
\* narrower by an odd number of columns (the division rounds down).
C31_Witness ==
    /\ call.op = "draw_screen"
    /\ Len(cfg.entries) > 0
    /\ \/ /\ call.max_x = 25
          /\ ret.start_col = 0
          /\ \E n \in 1..Len(cfg.entries) : Len(ret.draw_screen[n].line) = 43
       \/ /\ call.max_x = 81
          /\ ret.start_col = 27
          /\ \A n \in 1..Len(cfg.entries) : Len(ret.draw_screen[n].line) <= 26

\* The position of the earliest entry with the key (0 when there is none),
\* and the list reduced to that entry.
Earliest(entries, key) ==
    LET S == {i \in 1..Len(entries) : entries[i].key = key}
    IN  IF S = {} THEN 0 ELSE CHOOSE i \in S : \A j \in S : i <= j

OnlyEarliest(entries, key) ==
    IF Earliest(entries, key) = 0 THEN <<>>
    ELSE <<entries[Earliest(entries, key)]>>

\* C32: every accessor and setter acts on the first entry, in list order,
\* whose key is the requested key: a getter returns what it returns on the
\* list reduced to that entry, a setter changes that entry as it would in the
\* reduced list and succeeds only if it would there, and every other entry,
\* a later one with the same key included, is left as it was.
C32_FirstMatchOnly ==
    [][LET key == call'.key
           i == Earliest(cfg.entries, key)
           one == OnlyEarliest(cfg.entries, key)
       IN  /\ call'.op = "get_string" => ret'.get_string = get_string(one, key)
           /\ call'.op = "get_option" => ret'.get_option = get_option(one, key)
           /\ call'.op = "get_int" => ret'.get_int = get_int(one, key)
           /\ call'.op = "get_bool" => ret'.get_bool = get_bool(one, key)
           /\ call'.op \in {"set_option", "set_int", "set_bool", "set_string"}
              => /\ Len(cfg'.entries) = Len(cfg.entries)
                 /\ \A n \in 1..Len(cfg.entries) :
                       n # i => cfg'.entries[n] = cfg.entries[n]
                 /\ i # 0 =>
                       <<cfg'.entries[i]>> =
                          CASE call'.op = "set_option" ->
                                  set_option_entries(one, key, call'.index)
                            [] call'.op = "set_int" ->
                                  set_int_entries(one, key, call'.int)
                            [] call'.op = "set_bool" ->
                                  set_bool_entries(one, key, call'.bool)
                            [] call'.op = "set_string" ->
                                  set_string_entries(one, key, call'.string)
           /\ (call'.op = "set_option" /\ ret'.set_option.some)
              => set_option_stores(one, key, call'.index)
           /\ (call'.op = "set_bool" /\ ret'.set_bool.some)
              => set_bool_stores(one, key)
           /\ (call'.op = "set_string" /\ ret'.set_string.some)
              => set_string_stores(one, key, call'.string)]_vars

\* set_string("k", ..) has just been refused because the first "k" is a
\* Boolean, although a later "k" is a Text; that Text still holds "q".
C32_Witness ==
    /\ call.op = "set_string"
    /\ call.key = "k"
    /\ ret.set_string = None
    /\ Len(cfg.entries) >= 2
    /\ cfg.entries[1] = Entry("k", Boolean(FALSE))
    /\ cfg.entries[2] = Entry("k", Text("q", None))

\* C33: whenever set_option, set_bool or set_string returns failure (None),
\* the in-memory entry list is what it was before the call, also when the
\* value was valid and the write to storage failed.
C33_FailedSetterLeavesEntries ==
    [][/\ (call'.op = "set_option" /\ ret'.set_option = None)
          => cfg'.entries = cfg.entries
       /\ (call'.op = "set_bool" /\ ret'.set_bool = None)
          => cfg'.entries = cfg.entries
       /\ (call'.op = "set_string" /\ ret'.set_string = None)
          => cfg'.entries = cfg.entries]_vars

\* C34: a store obtained by load(path) saves back to that path.  The store of
\* a session was obtained by load("a.json"): every save (explicit, autosave
\* or in a setter) that writes puts the store in "a.json", and no step
\* changes another file.
C34_SavesGoToLoadedPath ==
    [][/\ \A p \in Paths \ {"a.json"} : fs'[p] = fs[p]
       /\ io' = "written" => fs'["a.json"] = FileText(ConfigToJson(cfg'))]_vars

\* C35: a modal editor returns control to Browsing with the same selection
\* index, on Enter and on Escape; an Escape pressed inside a modal editor
\* cancels that edit only: the session goes on (it is in Browsing, the key
\* of the browsing loop is not Escape) and the store is as it was.
C35_ModalReturnsToBrowsing ==
    [][/\ (pc \in {"edit_text", "edit_integer"} /\ edit_ch' \in {10, 13, 27})
          => /\ pc' = "browsing"
             /\ selected' = selected
             /\ ch' = ch
             /\ ch' # 27
       /\ (pc \in {"edit_text", "edit_integer"} /\ edit_ch' = 27)
          => cfg' = cfg
       /\ (pc \in {"edit_text", "edit_integer"} /\ pc' \notin {pc, "aborted"})
          => edit_ch' \in {10, 13, 27}]_vars

\* Escape was pressed in the text editor opened with 'e' on the field "q";
\* the session is in Browsing on the same entry, which still holds "q".
C35_Witness ==
    /\ pc = "browsing"
    /\ edit_ch = 27
    /\ ch = 101
    /\ HasSelected
    /\ Sel.value.kind = "text"
    /\ Sel.value.value = "q"
    /\ display_screen

\* C36: opening a modal editor on a Text or Integer entry and confirming at
\* once, without typing or deleting anything, leaves the entry's value, and
\* the whole store, unchanged, for every stored text and every stored i64,
\* the minimum included.
C36_ConfirmAtOnceKeepsValue ==
    [][(/\ pc \in {"edit_text", "edit_integer"}
        /\ edit_ch = 0
        /\ edit_ch' \in {10, 13})
       => /\ cfg' = cfg
          /\ pc' = "browsing"]_vars

\* Enter was the first key in the integer editor opened on i64::MIN, and the
\* entry holds i64::MIN.
C36_Witness ==
    /\ pc = "browsing"
    /\ edit_ch \in {10, 13}
    /\ input = ""
    /\ HasSelected
    /\ Sel.value = Integer(I64Min)
    /\ \A p \in Paths : fs[p] # FileText(JInvalid)
    /\ reported = ""

\* C37: a status message produced by the save command or by an edit hint is
\* still displayed when the session blocks waiting for its next key: while
\* the session waits in Browsing after such a message, the status row shows
\* it.
C37_StatusShownWhileWaiting ==
    (pc = "browsing" /\ reported # "") => status_row = reported

\* The four counters of a UserConfig are in their ranges.
ModesInRange(u) ==
    /\ u.show_seconds \in 0..4
    /\ u.show_circle \in 0..3
    /\ u.show_numbers \in 0..2
    /\ u.continuous_minutes \in 0..1

\* C38: in the clock's loop, started with show_seconds in 0..4, show_circle
\* in 0..3, show_numbers in 0..2 and continuous_minutes in 0..1, every key
\* leaves each counter in its range, and each press of 's', 'c', 'n' or 'm'
\* (either case) advances its own counter by one modulo the size of its
\* range and leaves the three others as they were; so k presses of a key
\* advance its counter by k modulo that size.
C38_ModeCountersCycleInRange ==
    [][clock_pc = "getch"
       => LET u == user_config
              v == user_config'
              k == call'.ch
          IN  /\ ModesInRange(v)
              /\ v.show_seconds
                    = IF k \in {115, 83} THEN (u.show_seconds + 1) % 5
                      ELSE u.show_seconds
              /\ v.show_circle
                    = IF k \in {99, 67} THEN (u.show_circle + 1) % 4
                      ELSE u.show_circle
              /\ v.show_numbers
                    = IF k \in {110, 78} THEN (u.show_numbers + 1) % 3
                      ELSE u.show_numbers
              /\ v.continuous_minutes
                    = IF k \in {109, 77} THEN (u.continuous_minutes + 1) % 2
                      ELSE u.continuous_minutes]_vars

\* 's' has just taken show_seconds from 4 back to 0, the other counters
\* being at their last values.
C38_Witness ==
    /\ clock_pc = "getch"
    /\ call.op = "getch"
    /\ call.ch = 115
    /\ user_config.show_seconds = 0
    /\ user_config.show_circle = 3
    /\ user_config.show_numbers = 2
    /\ user_config.continuous_minutes = 1

====
